---- MODULE Spec2Model ----
(***************************************************************************)
(* cargo-chef: the skeleton derivation (prepare) and the scaffold / build  *)
(* / reclaim pipeline (cook).                                              *)
(*                                                                         *)
(* Conventions.  An Option<T> is a sequence of length at most one:        *)
(* <<>> is None and <<x>> is Some(x).  A toml table of dependencies is a   *)
(* sequence of entries with distinct keys.  File and crate names that the  *)
(* code matches with glob patterns are sequences of one-character strings. *)
(***************************************************************************)
EXTENDS Integers, Sequences, FiniteSets, TLC

VARIABLES
    \* ---- prepare (Skeleton::derive) ----
    workspace,      \* the workspace on disk that is being scanned
    member,         \* Option<String>: the requested member of derive
    run,            \* which derivation is in progress (1, 2: workspace; 3: bumped workspace)
    pc,             \* position inside Skeleton::derive
    manifests,      \* local `manifests: Vec<ParsedManifest>` of derive
    lock_file,      \* local `lock_file: Option<toml::Value>` of derive
    config_file,    \* local `config_file: Option<String>` of derive
    results,        \* the value each finished derivation returned
    \* ---- cook (Recipe::cook) ----
    skeleton,       \* the Skeleton of the recipe being cooked
    args,           \* CookArgs
    cook_pc,        \* position inside Recipe::cook
    writes,         \* log of fs::write calls of build_minimum_project, in order
    disk,           \* scaffold files on disk: path -> content
    artifacts,      \* compiled artifacts present under the output directories
    deleted,        \* artifacts removed by remove_compiled_dummies
    events,         \* log of the phases of cook, in order
    \* ---- the recipe file (main.rs) ----
    recipe,         \* the Skeleton of the Recipe that `prepare` saves
    recipe_text,    \* the text written to recipe.json
    recipe_read,    \* what `cook` gets from reading that text back
    \* ---- the walk for manifests (skeleton.rs, read_manifests) ----
    walker,         \* what the walker yields, in order
    walk_at,        \* the item the loop is at
    walk_manifests, \* local `manifests: Vec<ParsedManifest>` of read_manifests
    walk_log,       \* the warnings logged
    walk_result     \* "running", or what read_manifests returned: "Ok", "Err"

prepare_vars == <<workspace, member, run, pc, manifests, lock_file, config_file, results>>
cook_vars == <<skeleton, args, cook_pc, writes, disk, artifacts, deleted, events>>
recipe_vars == <<recipe, recipe_text, recipe_read>>
walk_vars == <<walker, walk_at, walk_manifests, walk_log, walk_result>>
vars == <<workspace, member, run, pc, manifests, lock_file, config_file, results,
          skeleton, args, cook_pc, writes, disk, artifacts, deleted, events,
          recipe, recipe_text, recipe_read,
          walker, walk_at, walk_manifests, walk_log, walk_result>>

----------------------------------------------------------------------------
(* Generic helpers *)

None == <<>>
Some(x) == <<x>>

Range(s) == { s[i] : i \in DOMAIN s }

RECURSIVE Concat(_)
Concat(ss) == IF ss = <<>> THEN <<>> ELSE Head(ss) \o Concat(Tail(ss))

Map(s, f(_)) == [i \in DOMAIN s |-> f(s[i])]

\* stable insertion of x into the sorted sequence s, by the rank function
RECURSIVE InsertByRank(_, _, _)
InsertByRank(x, s, rank) ==
    IF s = <<>> THEN <<x>>
    ELSE IF rank[x] < rank[Head(s)] THEN <<x>> \o s
    ELSE <<Head(s)>> \o InsertByRank(x, Tail(s), rank)

\* a stable sort of s by rank: an element goes after the equal ones before it
RECURSIVE StableSort(_, _)
StableSort(s, rank) ==
    IF s = <<>> THEN <<>>
    ELSE InsertByRank(s[Len(s)], StableSort(SubSeq(s, 1, Len(s) - 1), rank), rank)

\* position of x in the sequence universe (0 when absent)
IndexOf(x, universe) ==
    IF \E i \in DOMAIN universe : universe[i] = x
    THEN CHOOSE i \in DOMAIN universe : universe[i] = x
    ELSE 0

\* the elements of s taken in the order the permutation p names them
Permute(s, p) ==
    LET idx == SelectSeq(p, LAMBDA i : i <= Len(s))
    IN  [i \in DOMAIN idx |-> s[idx[i]]]

PermSeqs(n) == { p \in [1..n -> 1..n] : \A i, j \in 1..n : i # j => p[i] # p[j] }

----------------------------------------------------------------------------
(* Version masking: src/skeleton/version_masking.rs *)

\* Dummy version used for all local crates.
CONST_VERSION == "0.0.1"

\* the dependency tables _mask visits, in the order of its loop
DependencyKeys == <<"dependencies", "dev-dependencies", "build-dependencies">>

\* parse_local_crate_names: the name of every manifest that has a [package]
\* parse_local_crate_names that leaves out the packages whose version is
\* the masked one already
parse_local_crate_names_of_unmasked(ms) ==
    Concat([i \in DOMAIN ms |->
        IF /\ ms[i].contents.package # None
           /\ ms[i].contents.package[1].version # Some([kind |-> "str", str |-> CONST_VERSION])
        THEN <<ms[i].contents.package[1].name>>
        ELSE <<>>])

parse_local_crate_names(ms) ==
    Concat([i \in DOMAIN ms |->
        IF ms[i].contents.package # None
        THEN <<ms[i].contents.package[1].name>>
        ELSE <<>>])

\* `must_mark_version` of _mask: a renamed dependency is judged by its
\* `package` field, any other by its key.  A string dependency (`b = "1"`)
\* has no `package` field, so it is judged by its key.
must_mark_version(local_package_names, dependency) ==
    IF dependency.package # None
    THEN dependency.package[1] \in Range(local_package_names)
    ELSE dependency.key \in Range(local_package_names)

\* the body of the loop over one dependencies table: `dependency.get_mut("version")`
\* is None for a string dependency and for a table without a version
mask_dependency(local_package_names, dependency) ==
    IF /\ must_mark_version(local_package_names, dependency)
       /\ dependency.version # None
    THEN [dependency EXCEPT !.version = Some(CONST_VERSION)]
    ELSE dependency

\* _mask over a value that may hold the three dependency tables
mask_tables_except_dev(local_package_names, tables) ==
    [k \in DOMAIN tables |->
        IF k = "dependencies"
        THEN [i \in DOMAIN tables[k] |-> mask_dependency(local_package_names, tables[k][i])]
        ELSE tables[k]]

mask_tables(local_package_names, tables) ==
    [k \in DOMAIN tables |->
        IF k \in Range(DependencyKeys)
        THEN [i \in DOMAIN tables[k] |-> mask_dependency(local_package_names, tables[k][i])]
        ELSE tables[k]]

\* mask_local_dependency_versions: top level, every [target.*] table, and the
\* [workspace] table (whose package version is masked whatever its shape)
mask_local_dependency_versions(local_package_names, contents) ==
    LET top == [contents EXCEPT !.deps = mask_tables(local_package_names, @)]
        tgt == [top EXCEPT !.target =
                    [i \in DOMAIN @ |->
                        [@[i] EXCEPT !.deps = mask_tables(local_package_names, @)]]]
    IN  IF tgt.workspace = None THEN tgt
        ELSE [tgt EXCEPT !.workspace = Some(
                [@[1] EXCEPT
                    !.package_version =
                        IF @ # None THEN Some([kind |-> "str", str |-> CONST_VERSION]) ELSE @,
                    !.deps = mask_tables(local_package_names, @)])]

\* the package version is overwritten only when it is a plain string
\* (`version.workspace = true` is a table and is left alone)
mask_package_version(contents) ==
    IF /\ contents.package # None
       /\ contents.package[1].version # None
       /\ contents.package[1].version[1].kind = "str"
    THEN [contents EXCEPT !.package =
            Some([@[1] EXCEPT !.version = Some([kind |-> "str", str |-> CONST_VERSION])])]
    ELSE contents

mask_local_versions_in_manifests(ms, local_package_names) ==
    [i \in DOMAIN ms |->
        [ms[i] EXCEPT !.contents =
            mask_local_dependency_versions(local_package_names, mask_package_version(@))]]

\* the filter of mask_local_versions_in_lockfile without its `source` test
is_local_lock_package_by_name(package, local_package_names) ==
    /\ package.name # None
    /\ package.name[1] \in Range(local_package_names)

\* the filter of mask_local_versions_in_lockfile
is_local_lock_package(package, local_package_names) ==
    /\ package.name # None
    /\ package.name[1] \in Range(local_package_names)
    /\ package.source = None

\* a masking of the lockfile that rewrites the local versions inside the
\* dependency lists as well
mask_local_versions_in_lockfile_and_lists(lock, local_package_names) ==
    [lock EXCEPT !.package =
        [i \in DOMAIN @ |->
            LET lists == [@[i] EXCEPT !.dependencies =
                            [j \in DOMAIN @ |->
                                IF /\ @[j].name \in Range(local_package_names)
                                   /\ @[j].source = None
                                   /\ @[j].version # None
                                THEN [@[j] EXCEPT !.version = Some(CONST_VERSION)]
                                ELSE @[j]]]
            IN  IF /\ is_local_lock_package(lists, local_package_names)
                   /\ lists.version # None
                THEN [lists EXCEPT !.version = Some(CONST_VERSION)]
                ELSE lists]]

mask_local_versions_in_lockfile(lock, local_package_names) ==
    [lock EXCEPT !.package =
        [i \in DOMAIN @ |->
            IF /\ is_local_lock_package(@[i], local_package_names)
               /\ @[i].version # None
            THEN [@[i] EXCEPT !.version = Some(CONST_VERSION)]
            ELSE @[i]]]

\* mask_local_crate_versions: the pair (manifests, lock_file) after masking
mask_local_crate_versions(ms, lock) ==
    LET local_package_names == parse_local_crate_names(ms)
    IN  [manifests |-> mask_local_versions_in_manifests(ms, local_package_names),
         lock_file |-> IF lock # None
                       THEN Some(mask_local_versions_in_lockfile(lock[1], local_package_names))
                       ELSE None]

----------------------------------------------------------------------------
(* Reading a workspace: src/skeleton/read.rs, src/skeleton/target.rs *)

\* PathBuf's order on the paths of the model: the sequence lists them ascending
\* (components compared one by one, `..` before any name, names as byte strings,
\* so "../x/..." < "Cargo.toml" < "a/..." < "b/...")
PathOrder ==
    <<"../x/Cargo.toml", "../y/Cargo.toml",
      "Cargo.toml", "a/Cargo.toml", "b/Cargo.toml", "crates/a/Cargo.toml",
      "src/bin/x.rs", "src/bin/y.rs", "src/lib.rs", "src/main.rs",
      "stray/s/Cargo.toml", "tests/t.rs", "vendor/v/Cargo.toml">>

PathRank(p) == IndexOf(p, PathOrder)

\* TargetKind in the order of its declaration, which its derived Ord follows
TargetKindOrder == <<"Lib", "LibProcMacro", "Bin", "Test", "Bench", "Example", "BuildScript">>

\* String's order on the target names of the model
NameOrder == <<"a", "b", "t", "x", "y">>

\* the derived Ord of Target: path, then kind, then name
TargetRank(t) ==
    (PathRank(t.path) * 16 + IndexOf(t.kind, TargetKindOrder)) * 16 + IndexOf(t.name, NameOrder)

\* the kind gather_targets gives a target of `cargo metadata`
TargetKindOf(target) ==
    IF "bench" \in target.kind THEN "Bench"
    ELSE IF "example" \in target.kind THEN "Example"
    ELSE IF "test" \in target.kind THEN "Test"
    ELSE IF "bin" \in target.kind THEN "Bin"
    ELSE IF "custom-build" \in target.kind THEN "BuildScript"
    ELSE IF "proc-macro" \in target.crate_types THEN "LibProcMacro"
    ELSE "Lib"

ToTarget(target) ==
    [path |-> target.src_path, kind |-> TargetKindOf(target), name |-> target.name]

\* the first occurrence of every element of s
RECURSIVE Dedupe(_)
Dedupe(s) ==
    IF s = <<>> THEN <<>>
    ELSE LET init == Dedupe(SubSeq(s, 1, Len(s) - 1))
         IN  IF s[Len(s)] \in Range(init) THEN init ELSE Append(init, s[Len(s)])

\* gather_targets with the targets kept in the order `cargo metadata` lists them
gather_targets_in_metadata_order(package) ==
    [i \in DOMAIN package.targets |-> ToTarget(package.targets[i])]

\* gather_targets: the targets collected into a BTreeSet<Target>
gather_targets(package) ==
    LET ts == Dedupe([i \in DOMAIN package.targets |-> ToTarget(package.targets[i])])
    IN  StableSort(ts, [t \in Range(ts) |-> TargetRank(t)])

\* the pairs kept as a plain list: every entry, in the order given
BTreeMapOf_as_list(pairs) == pairs

\* BTreeMap<PathBuf, _> built from (path, targets) pairs: a later pair replaces
\* an earlier one with the same path, iteration is ascending in the path
BTreeMapOf(pairs) ==
    LET keys == { pairs[i].path : i \in DOMAIN pairs }
        last(k) == pairs[CHOOSE i \in DOMAIN pairs :
                        /\ pairs[i].path = k
                        /\ \A j \in DOMAIN pairs : pairs[j].path = k => j <= i]
        RECURSIVE Asc(_)
        Asc(ks) == IF ks = {} THEN <<>>
                   ELSE LET k == CHOOSE x \in ks : \A y \in ks : PathRank(x) <= PathRank(y)
                        IN  <<last(k)>> \o Asc(ks \ {k})
    IN  Asc(keys)

\* manifests read by walking the directories under the root, whatever cargo
\* takes for a member
read_manifests_walking_directories(ws, metadata) ==
    LET found == SelectSeq(PathOrder, LAMBDA p : p \in DOMAIN ws.files
                                                  /\ p \notin {"../x/Cargo.toml", "../y/Cargo.toml"})
    IN  [i \in DOMAIN found |->
            [relative_path |-> found[i], contents |-> ws.files[found[i]], targets |-> <<>>]]

\* read::manifests: the packages of the metadata (workspace packages, then the
\* root package once more), the root manifest added when it has no package,
\* each manifest parsed and kept as it was before target completion
read_manifests(ws, metadata) ==
    LET listed == metadata.workspace_packages \o metadata.root_package
        pairs == [i \in DOMAIN listed |->
                    [path |-> listed[i].manifest_path, targets |-> gather_targets(listed[i])]]
        all == IF metadata.root_package = None
               THEN Append(pairs, [path |-> "Cargo.toml", targets |-> <<>>])
               ELSE pairs
        packages == BTreeMapOf(all)
    IN  [i \in DOMAIN packages |->
            [relative_path |-> packages[i].path,
             contents |-> ws.files[packages[i].path],
             targets |-> packages[i].targets]]

\* std::fs::read_to_string on a file of the model: "ok", "absent" (NotFound)
\* or "denied" (any other I/O error)
ReadFile(file) == [kind |-> file.state, text |-> file.text]

\* read::config: `config` is tried first, and on ANY error `config.toml` is
\* tried; the result is an error unless the error left is NotFound
read_config(ws) ==
    LET first == ReadFile(ws.config)
        got == IF first.kind = "ok" THEN first ELSE ReadFile(ws.config_toml)
    IN  IF got.kind = "ok" THEN [ok |-> TRUE, value |-> Some(got.text)]
        ELSE IF got.kind # "absent" THEN [ok |-> FALSE, value |-> None]
        ELSE [ok |-> TRUE, value |-> None]

\* read::lockfile
read_lockfile(ws) ==
    IF ws.lock_state = "ok" THEN [ok |-> TRUE, value |-> Some(ws.lock)]
    ELSE IF ws.lock_state # "absent" THEN [ok |-> FALSE, value |-> None]
    ELSE [ok |-> TRUE, value |-> None]

----------------------------------------------------------------------------
(* Skeleton::derive: src/skeleton/mod.rs *)

\* ignore_all_members_except: the `members` of the root manifest's [workspace],
\* when it has one, become the list holding just the requested member
ignore_all_members_except(ms, m) ==
    [i \in DOMAIN ms |->
        IF /\ ms[i].relative_path = "Cargo.toml"
           /\ \A j \in 1..(i - 1) : ms[j].relative_path # "Cargo.toml"
           /\ ms[i].contents.workspace # None
           /\ ms[i].contents.workspace[1].members # None
        THEN [ms[i] EXCEPT !.contents.workspace = Some([@[1] EXCEPT !.members = Some(<<m>>)])]
        ELSE ms[i]]

\* toml::to_string of a version value
VersionString(v) ==
    IF v = None THEN <<>>
    ELSE IF v[1].kind = "str" THEN <<"version =", v[1].str>>
    ELSE <<"version.workspace =", "true">>

OptString(key, o) == IF o = None THEN <<>> ELSE <<key, o[1]>>

DependencyString(d) ==
    IF d.kind = "str" THEN <<d.key, "=", d.req>>
    ELSE <<d.key, "= {">> \o OptString("version =", d.version)
            \o OptString("path =", d.path) \o OptString("package =", d.package) \o <<"}">>

TablesString(prefix, tables) ==
    Concat([k \in DOMAIN DependencyKeys |->
        LET t == tables[DependencyKeys[k]]
        IN  IF t = <<>> THEN <<>>
            ELSE <<"[", prefix, DependencyKeys[k], "]">>
                    \o Concat([i \in DOMAIN t |-> DependencyString(t[i])])])

ListString(key, o) == IF o = None THEN <<>> ELSE <<key, "[">> \o o[1] \o <<"]">>

\* toml::to_string of the contents of a manifest
to_string(c) ==
    (IF c.package = None THEN <<>>
     ELSE <<"[package]", "name =", c.package[1].name>>
            \o VersionString(c.package[1].version)
            \o OptString("build =", c.package[1].build))
    \o TablesString("", c.deps)
    \o Concat([i \in DOMAIN c.target |-> TablesString(c.target[i].cfg, c.target[i].deps)])
    \o (IF c.workspace = None THEN <<>>
        ELSE <<"[workspace]">>
                \o ListString("members =", c.workspace[1].members)
                \o ListString("default-members =", c.workspace[1].default_members)
                \o (IF c.workspace[1].package_version = None THEN <<>>
                    ELSE <<"[workspace.package]">> \o VersionString(c.workspace[1].package_version))
                \o TablesString("workspace.", c.workspace[1].deps))

DepRefString(r) == <<r.name>> \o r.version \o r.source

\* toml::to_string of a lockfile
lock_to_string(lock) ==
    Concat([i \in DOMAIN lock.package |->
        LET p == lock.package[i]
        IN  <<"[[package]]">> \o OptString("name =", p.name) \o OptString("version =", p.version)
                \o OptString("source =", p.source) \o OptString("checksum =", p.checksum)
                \o <<"dependencies = [">>
                \o Concat([j \in DOMAIN p.dependencies |-> DepRefString(p.dependencies[j])])
                \o <<"]">>])

\* serialize_manifests
serialize_manifests(ms) ==
    [i \in DOMAIN ms |->
        [relative_path |-> ms[i].relative_path, contents |-> to_string(ms[i].contents)]]

\* `serialised_manifests.sort_by_key(|m| m.relative_path.clone())`
sort_by_key(ms) == StableSort(ms, [m \in Range(ms) |-> PathRank(m.relative_path)])

\* the Skeleton derive returns from its masked manifests and lockfile
make_skeleton(ms, config, lock) ==
    [manifests |-> sort_by_key(serialize_manifests(ms)),
     config_file |-> config,
     lock_file |-> IF lock = None THEN None ELSE Some(lock_to_string(lock[1]))]

\* A text is a sequence of characters; the JSON of a Recipe is a sequence of
\* tokens: punctuation, keys, `null`, and the characters of its strings.

\* the JSON of a string without any escaping
json_string_unescaped(str) == <<"\"">> \o str \o <<"\"">>

\* the JSON of a string: between quotes, with the quote, the backslash and
\* the line feed escaped
json_string(str) ==
    <<"\"">>
    \o Concat([i \in DOMAIN str |->
            IF str[i] = "\"" THEN <<"\\", "\"">>
            ELSE IF str[i] = "\\" THEN <<"\\", "\\">>
            ELSE IF str[i] = "\n" THEN <<"\\", "n">>
            ELSE <<str[i]>>])
    \o <<"\"">>

\* the JSON of an Option<String>
json_option(o) == IF o = None THEN <<"null">> ELSE json_string(o[1])

json_manifest(m) ==
    <<"{", "\"relative_path\":">> \o json_string(m.relative_path)
    \o <<",", "\"contents\":">> \o json_string(m.contents) \o <<"}">>

RECURSIVE Separated(_)
Separated(items) ==
    IF items = <<>> THEN <<>>
    ELSE IF Len(items) = 1 THEN items[1]
    ELSE items[1] \o <<",">> \o Separated(Tail(items))

\* serde_json::to_string of a Recipe
serde_json_to_string(sk) ==
    <<"{", "\"skeleton\":", "{", "\"manifests\":", "[">>
    \o Separated([i \in DOMAIN sk.manifests |-> json_manifest(sk.manifests[i])])
    \o <<"]", ",", "\"config_file\":">> \o json_option(sk.config_file)
    \o <<",", "\"lock_file\":">> \o json_option(sk.lock_file)
    \o <<"}", "}">>

\* the text `prepare` writes for a derived Skeleton, whose paths and config
\* file are single tokens
recipe_to_string(sk) ==
    serde_json_to_string(
        [manifests |-> [i \in DOMAIN sk.manifests |->
                            [relative_path |-> <<sk.manifests[i].relative_path>>,
                             contents |-> sk.manifests[i].contents]],
         config_file |-> IF sk.config_file = None THEN None ELSE Some(sk.config_file),
         lock_file |-> sk.lock_file])

Failed == [ok |-> FALSE, value |-> <<>>, next |-> 0]

Expect(text, i, token) == i >= 1 /\ i <= Len(text) /\ text[i] = token

\* the characters of a JSON string from position i, behind its opening quote
RECURSIVE read_characters(_, _, _)
read_characters(text, i, read) ==
    IF i > Len(text) THEN Failed
    ELSE IF text[i] = "\"" THEN [ok |-> TRUE, value |-> read, next |-> i + 1]
    ELSE IF text[i] = "\\"
    THEN IF i + 1 > Len(text) THEN Failed
         ELSE IF text[i + 1] \in {"\"", "\\"}
         THEN read_characters(text, i + 2, Append(read, text[i + 1]))
         ELSE IF text[i + 1] = "n" THEN read_characters(text, i + 2, Append(read, "\n"))
         ELSE Failed
    ELSE read_characters(text, i + 1, Append(read, text[i]))

read_string(text, i) ==
    IF Expect(text, i, "\"") THEN read_characters(text, i + 1, <<>>) ELSE Failed

read_option(text, i) ==
    IF Expect(text, i, "null") THEN [ok |-> TRUE, value |-> None, next |-> i + 1]
    ELSE LET str == read_string(text, i)
         IN  IF str.ok THEN [ok |-> TRUE, value |-> Some(str.value), next |-> str.next]
             ELSE Failed

read_manifest(text, i) ==
    IF ~(Expect(text, i, "{") /\ Expect(text, i + 1, "\"relative_path\":")) THEN Failed
    ELSE LET path == read_string(text, i + 2)
         IN  IF ~(path.ok /\ Expect(text, path.next, ",")
                    /\ Expect(text, path.next + 1, "\"contents\":"))
             THEN Failed
             ELSE LET contents == read_string(text, path.next + 2)
                  IN  IF ~(contents.ok /\ Expect(text, contents.next, "}")) THEN Failed
                      ELSE [ok |-> TRUE,
                            value |-> [relative_path |-> path.value,
                                       contents |-> contents.value],
                            next |-> contents.next + 1]

\* the manifests of a JSON array from position i, behind `[` or `,`
RECURSIVE read_manifest_list(_, _, _)
read_manifest_list(text, i, read) ==
    IF read = <<>> /\ Expect(text, i, "]") THEN [ok |-> TRUE, value |-> <<>>, next |-> i + 1]
    ELSE LET m == read_manifest(text, i)
         IN  IF ~m.ok THEN Failed
             ELSE IF Expect(text, m.next, ",")
             THEN read_manifest_list(text, m.next + 1, Append(read, m.value))
             ELSE IF Expect(text, m.next, "]")
             THEN [ok |-> TRUE, value |-> Append(read, m.value), next |-> m.next + 1]
             ELSE Failed

\* serde_json::from_str of a Recipe
serde_json_from_str(text) ==
    LET bad == [ok |-> FALSE, value |-> [manifests |-> <<>>, config_file |-> None,
                                         lock_file |-> None]]
    IN  IF ~(/\ Expect(text, 1, "{") /\ Expect(text, 2, "\"skeleton\":")
             /\ Expect(text, 3, "{") /\ Expect(text, 4, "\"manifests\":")
             /\ Expect(text, 5, "["))
        THEN bad
        ELSE LET ms == read_manifest_list(text, 6, <<>>)
             IN  IF ~(ms.ok /\ Expect(text, ms.next, ",")
                        /\ Expect(text, ms.next + 1, "\"config_file\":"))
                 THEN bad
                 ELSE LET config == read_option(text, ms.next + 2)
                      IN  IF ~(config.ok /\ Expect(text, config.next, ",")
                                 /\ Expect(text, config.next + 1, "\"lock_file\":"))
                          THEN bad
                          ELSE LET lock == read_option(text, config.next + 2)
                               IN  IF ~(lock.ok /\ Expect(text, lock.next, "}")
                                          /\ Expect(text, lock.next + 1, "}")
                                          /\ lock.next + 1 = Len(text))
                                   THEN bad
                                   ELSE [ok |-> TRUE,
                                         value |-> [manifests |-> ms.value,
                                                    config_file |-> config.value,
                                                    lock_file |-> lock.value]]

----------------------------------------------------------------------------
(* The workspaces the derivations are run on *)

\* number of targets `cargo metadata` reports for package `a`
MaxTargets == 3

DependencyKeySet == {"dependencies", "dev-dependencies", "build-dependencies"}

NoTables == [k \in DependencyKeySet |-> <<>>]

PlainVersion(v) == Some([kind |-> "str", str |-> v])
InheritedVersion == Some([kind |-> "table", str |-> "workspace"])

\* `key = "req"`
StrDep(key, req) ==
    [key |-> key, kind |-> "str", req |-> req, version |-> None, package |-> None, path |-> None]
\* `key = { version = .., package = .., path = .. }`
TableDep(key, version, package, path) ==
    [key |-> key, kind |-> "table", req |-> "", version |-> version, package |-> package,
     path |-> path]

\* the dependency lists a manifest of the model may hold in one table.  Local
\* packages are `a` and `b`; `u` is a registry package; a registry package
\* named `b` exists as well.
DependencyLists ==
    { <<TableDep("b", Some("5.5.5"), None, Some("../b"))>>,
      <<TableDep("c", Some("5.5.5"), Some("b"), Some("../b")),
        TableDep("u", Some("1.0.0"), None, None)>>,
      <<StrDep("b", "=5.5.5"),
        TableDep("b-local", Some("=5.5.5"), Some("b"), Some("../b"))>>,
      <<TableDep("b", Some("=5.5.5"), None, None),
        TableDep("b-local", Some("=5.5.5"), Some("b"), Some("../b"))>>,
      <<TableDep("c", Some("1.0.0"), Some("u"), None),
        TableDep("b", None, None, Some("../b"))>>,
      <<StrDep("u", "1.0.0")>> }

TableScopes == {"top", "target", "workspace"}

MetaTarget(path, kind, crate_types, name) ==
    [src_path |-> path, kind |-> kind, crate_types |-> crate_types, name |-> name]

TargetUniverse ==
    <<MetaTarget("src/bin/y.rs", {"bin"}, {"bin"}, "y"),
      MetaTarget("src/bin/x.rs", {"bin"}, {"bin"}, "x"),
      MetaTarget("tests/t.rs", {"test"}, {"bin"}, "t"),
      MetaTarget("src/main.rs", {"bin"}, {"bin"}, "a"),
      MetaTarget("src/lib.rs", {"lib"}, {"lib"}, "a")>>

TargetsOfA ==
    SubSeq(TargetUniverse, 1,
           IF MaxTargets < Len(TargetUniverse) THEN MaxTargets ELSE Len(TargetUniverse))

TargetsOfB == <<MetaTarget("src/lib.rs", {"proc-macro"}, {"proc-macro"}, "b")>>

File(state, text) == [state |-> state, text |-> text]

LockPackage(name, version, source, dependencies) ==
    [name |-> name, version |-> version, source |-> source,
     checksum |-> IF source = None THEN None ELSE Some("3df10e9e"),
     dependencies |-> dependencies]

DepRef(name, version, source) == [name |-> name, version |-> version, source |-> source]

Registry == Some("registry+https://github.com/rust-lang/crates.io-index")

\* a lockfile whose dependency lists name packages without a version
LockPlain ==
    [package |->
        <<LockPackage(Some("a"), Some("2.2.2"), None, <<DepRef("b", None, None), DepRef("u", None, None)>>),
          LockPackage(Some("b"), Some("5.5.5"), None, <<>>),
          LockPackage(Some("u"), Some("1.0.0"), Registry, <<>>),
          LockPackage(None, Some("1.0.0"), None, <<>>),
          LockPackage(Some("b"), None, None, <<>>)>>]

\* a lockfile with a local and a registry package of the same name `b`, as in
\* the tests transitive_workspace_dependency_not_masked and
\* non_local_dependency_not_masked: the dependency lists then carry versions
LockSameName ==
    [package |->
        <<LockPackage(Some("a"), Some("2.2.2"), None,
                      <<DepRef("b", Some("5.5.5"), None), DepRef("b", Some("5.5.5"), Registry)>>),
          LockPackage(Some("b"), Some("5.5.5"), None, <<>>),
          LockPackage(Some("b"), Some("5.5.5"), Registry, <<>>),
          LockPackage(Some("u"), Some("1.0.0"), Registry, <<DepRef("b", Some("5.5.5"), Registry)>>)>>]

Contents(package, deps, target, ws) ==
    [package |-> package, deps |-> deps, target |-> target, workspace |-> ws]

Package(name, version) == Some([name |-> name, version |-> version, build |-> None])

WorkspaceTable(package_version, deps) ==
    Some([members |-> Some(<<"a", "b">>), default_members |-> Some(<<"b">>),
          package_version |-> package_version, deps |-> deps])

\* a workspace with a pure-workspace root manifest and the members `a`, `b`;
\* `list` is placed in the table `key` of the given scope
MemberWorkspace(list, scope, key, version_of_a, workspace_version, lock_state, lock, config,
                config_toml) ==
    LET tables == [NoTables EXCEPT ![key] = list]
    IN  [files |->
            [p \in {"Cargo.toml", "a/Cargo.toml", "b/Cargo.toml"} |->
                IF p = "Cargo.toml"
                THEN Contents(None, NoTables, <<>>,
                        WorkspaceTable(workspace_version,
                                       IF scope = "workspace" THEN tables ELSE NoTables))
                ELSE IF p = "a/Cargo.toml"
                THEN Contents(Package("a", version_of_a),
                        IF scope = "top" THEN tables ELSE NoTables,
                        IF scope = "target"
                        THEN <<[cfg |-> "target.cfg(windows).", deps |-> tables]>>
                        ELSE <<>>,
                        None)
                ELSE Contents(Package("b", PlainVersion("5.5.5")), NoTables, <<>>, None)],
         packages |-> <<[manifest_path |-> "a/Cargo.toml", targets |-> TargetsOfA],
                        [manifest_path |-> "b/Cargo.toml", targets |-> TargetsOfB]>>,
         root_is_package |-> FALSE,
         config |-> config, config_toml |-> config_toml,
         rust_toolchain |-> File("absent", ""), rust_toolchain_toml |-> File("absent", ""),
         lock_state |-> lock_state, lock |-> lock]

\* a single package at the root, as in the test test_recipe_is_deterministic
SinglePackage(list, key, lock_state) ==
    [files |->
        [p \in {"Cargo.toml"} |->
            Contents(Package("a", PlainVersion("2.2.2")), [NoTables EXCEPT ![key] = list], <<>>, None)],
     packages |-> <<[manifest_path |-> "Cargo.toml", targets |-> TargetsOfA]>>,
     root_is_package |-> TRUE,
     config |-> File("absent", ""), config_toml |-> File("ok", "[build]"),
     rust_toolchain |-> File("absent", ""), rust_toolchain_toml |-> File("absent", ""),
     lock_state |-> lock_state, lock |-> LockPlain]

Absent == File("absent", "")

\* a workspace whose member `a` lies in a nested directory matched by a glob;
\* `bare` and `toml` are its files rust-toolchain and rust-toolchain.toml.
\* Under the root there are also a vendored package `v` and a package `s`
\* that no `members` entry matches; `a` depends by path on the package `x` of
\* another workspace, which depends by path on `y`
NestedWorkspace(default_members, root_is_package, bare, toml) ==
    [files |->
        [p \in {"../x/Cargo.toml", "../y/Cargo.toml", "Cargo.toml", "b/Cargo.toml",
                "crates/a/Cargo.toml", "stray/s/Cargo.toml", "vendor/v/Cargo.toml"} |->
            CASE p = "Cargo.toml" ->
                    Contents(IF root_is_package THEN Package("r", PlainVersion("3.3.3")) ELSE None,
                             NoTables, <<>>,
                             Some([members |-> Some(<<"crates/*", "b">>),
                                   default_members |-> default_members,
                                   package_version |-> None, deps |-> NoTables]))
              [] p = "crates/a/Cargo.toml" ->
                    Contents(Package("a", PlainVersion("2.2.2")),
                             [NoTables EXCEPT !["dependencies"] =
                                <<TableDep("x", Some("1.0.0"), None, Some("../../../x")),
                                  TableDep("v", Some("1.0.0"), None, None)>>],
                             <<>>, None)
              [] p = "b/Cargo.toml" ->
                    Contents(Package("b", PlainVersion("5.5.5")), NoTables, <<>>, None)
              [] p = "stray/s/Cargo.toml" ->
                    Contents(Package("s", PlainVersion("1.0.0")), NoTables, <<>>, None)
              [] p = "vendor/v/Cargo.toml" ->
                    Contents(Package("v", PlainVersion("1.0.0")), NoTables, <<>>, None)
              [] p = "../x/Cargo.toml" ->
                    Contents(Package("x", PlainVersion("1.0.0")),
                             [NoTables EXCEPT !["dependencies"] =
                                <<TableDep("y", Some("1.0.0"), None, Some("../y"))>>],
                             <<>>, None)
              [] OTHER ->
                    Contents(Package("y", PlainVersion("1.0.0")), NoTables, <<>>, None)],
     packages |->
        (IF root_is_package
         THEN <<[manifest_path |-> "Cargo.toml", targets |-> TargetsOfA]>> ELSE <<>>)
        \o <<[manifest_path |-> "crates/a/Cargo.toml", targets |-> TargetsOfA],
              [manifest_path |-> "b/Cargo.toml", targets |-> TargetsOfB]>>,
     root_is_package |-> root_is_package,
     config |-> Absent, config_toml |-> Absent,
     rust_toolchain |-> bare, rust_toolchain_toml |-> toml,
     lock_state |-> "ok", lock |-> LockPlain]

Scenarios ==
    { [ws |-> MemberWorkspace(l, s, k, v, None, "ok", LockSameName, Absent, Absent),
       member |-> None] :
        l \in DependencyLists, s \in TableScopes, k \in DependencyKeySet,
        v \in {PlainVersion("2.2.2"), InheritedVersion, None} }
    \cup
    { [ws |-> MemberWorkspace(l, "workspace", "dependencies", InheritedVersion, wv, ls, lk, c, ct),
       member |-> m] :
        l \in {<<TableDep("b", Some("5.5.5"), None, Some("../b"))>>},
        wv \in {None, PlainVersion("2.2.2")},
        ls \in {"ok", "absent", "denied"},
        lk \in {LockPlain},
        c \in {Absent, File("ok", "[net]"), File("denied", "")},
        ct \in {Absent, File("ok", "[build]"), File("denied", "")},
        m \in {None, Some("a")} }
    \cup
    { [ws |-> NestedWorkspace(dm, rp, bare, toml), member |-> m] :
        dm \in {None, Some(<<"b">>)}, rp \in BOOLEAN,
        bare \in {Absent, File("ok", "1.75.0")},
        toml \in {Absent, File("ok", "[toolchain] channel = 1.75.0")},
        m \in {None, Some("a"), Some("b")} }
    \cup
    { [ws |-> SinglePackage(l, k, ls), member |-> m] :
        l \in DependencyLists, k \in DependencyKeySet, ls \in {"ok", "absent"},
        m \in {None, Some("a")} }

----------------------------------------------------------------------------
(* A second workspace that differs only in the versions of its local packages *)

BumpedVersion == "7.7.7"

LocalNames(ws) ==
    { ws.files[p].package[1].name :
        p \in { q \in {"Cargo.toml"} \cup { ws.packages[i].manifest_path : i \in DOMAIN ws.packages } :
                    ws.files[q].package # None } }

\* a dependency entry that points at a local package: a path dependency whose
\* package is one of the workspace
PointsAtLocal(ws, d) ==
    /\ d.path # None
    /\ (IF d.package # None THEN d.package[1] ELSE d.key) \in LocalNames(ws)

BumpTables(ws, tables) ==
    [k \in DOMAIN tables |->
        [i \in DOMAIN tables[k] |->
            IF PointsAtLocal(ws, tables[k][i]) /\ tables[k][i].version # None
            THEN [tables[k][i] EXCEPT !.version = Some(BumpedVersion)]
            ELSE tables[k][i]]]

BumpVersionValue(v) ==
    IF v # None /\ v[1].kind = "str" THEN PlainVersion(BumpedVersion) ELSE v

BumpContents(ws, c) ==
    [package |-> IF c.package = None THEN None
                 ELSE Some([c.package[1] EXCEPT !.version = BumpVersionValue(@)]),
     deps |-> BumpTables(ws, c.deps),
     target |-> [i \in DOMAIN c.target |-> [c.target[i] EXCEPT !.deps = BumpTables(ws, @)]],
     workspace |-> IF c.workspace = None THEN None
                   ELSE Some([c.workspace[1] EXCEPT
                                !.package_version = BumpVersionValue(@),
                                !.deps = BumpTables(ws, @)])]

IsLocalRef(ws, name, source) == name \in LocalNames(ws) /\ source = None

BumpLock(ws, lock) ==
    [package |->
        [i \in DOMAIN lock.package |->
            LET p == lock.package[i]
            IN  [p EXCEPT
                    !.version = IF p.name # None /\ IsLocalRef(ws, p.name[1], p.source) /\ @ # None
                                THEN Some(BumpedVersion) ELSE @,
                    !.dependencies =
                        [j \in DOMAIN @ |->
                            IF IsLocalRef(ws, @[j].name, @[j].source) /\ @[j].version # None
                            THEN [@[j] EXCEPT !.version = Some(BumpedVersion)]
                            ELSE @[j]]]]]

\* the workspace with every local version number replaced: in the manifests
\* of the local packages, in the dependency entries that point at them and in
\* the lockfile
Bump(ws) ==
    [ws EXCEPT !.files = [p \in DOMAIN @ |-> BumpContents(ws, @[p])],
               !.lock = BumpLock(ws, @)]

----------------------------------------------------------------------------
(* The prepare specification: three derivations, one after the other *)

\* number of derivations: the last one scans the bumped workspace
NumRuns == 3

\* the workspace the current derivation scans
Scanned == IF run = NumRuns THEN Bump(workspace) ELSE workspace

\* what `cargo metadata --no-deps` answers: the packages and the targets of
\* each in an order the program does not control
Metadata(ws, p, q) ==
    LET pk == Permute(ws.packages, p)
        view == [i \in DOMAIN pk |-> [pk[i] EXCEPT !.targets = Permute(@, q)]]
    IN  [workspace_packages |-> view,
         root_package |-> IF ws.root_is_package
                          THEN SelectSeq(view, LAMBDA x : x.manifest_path = "Cargo.toml")
                          ELSE None]

MetadataViews(ws) ==
    { Metadata(ws, p, q) : p \in PermSeqs(Len(ws.packages)), q \in PermSeqs(Len(TargetsOfA)) }

NoSkeleton == [manifests |-> <<>>, config_file |-> None, lock_file |-> None]

\* no walk for manifests is going on
NoWalk ==
    /\ walker = <<>>
    /\ walk_at = 1
    /\ walk_manifests = <<>>
    /\ walk_log = <<>>
    /\ walk_result = "idle"

Idle ==
    /\ skeleton = NoSkeleton
    /\ args = <<>>
    /\ cook_pc = "idle"
    /\ writes = <<>>
    /\ disk = <<>>
    /\ artifacts = {}
    /\ deleted = {}
    /\ events = <<>>
    /\ recipe = NoSkeleton
    /\ recipe_text = None
    /\ recipe_read = None

InitPrepare ==
    /\ \E sc \in Scenarios : workspace = sc.ws /\ member = sc.member
    /\ run = 1
    /\ pc = "start"
    /\ manifests = <<>>
    /\ lock_file = None
    /\ config_file = None
    /\ results = [r \in 1..NumRuns |-> None]
    /\ Idle
    /\ NoWalk

\* the end of one derivation: the next one starts from fresh locals
Return(result) ==
    /\ results' = [results EXCEPT ![run] = Some(result)]
    /\ IF run < NumRuns
       THEN /\ run' = run + 1
            /\ pc' = "start"
            /\ manifests' = <<>>
            /\ lock_file' = None
            /\ config_file' = None
       ELSE /\ pc' = "done"
            /\ UNCHANGED <<run, manifests, lock_file, config_file>>

\* derive, lines 36-45: metadata, config, manifests, member, lockfile
DeriveRead ==
    /\ pc = "start"
    /\ read_config(Scanned).ok
    /\ read_lockfile(Scanned).ok
    /\ \E metadata \in MetadataViews(Scanned) :
        LET ms == read_manifests(Scanned, metadata)
        IN  manifests' = IF member # None THEN ignore_all_members_except(ms, member[1]) ELSE ms
    /\ config_file' = read_config(Scanned).value
    /\ lock_file' = read_lockfile(Scanned).value
    /\ pc' = "read"
    /\ UNCHANGED <<workspace, member, run, results, cook_vars, recipe_vars, walk_vars>>

\* derive returns the error of read::config or read::lockfile
DeriveReadFails ==
    /\ pc = "start"
    /\ ~read_config(Scanned).ok \/ ~read_lockfile(Scanned).ok
    /\ Return([ok |-> FALSE, skeleton |-> NoSkeleton, text |-> <<>>, parsed |-> <<>>])
    /\ UNCHANGED <<workspace, member, cook_vars, recipe_vars, walk_vars>>

\* derive, line 47
DeriveMask ==
    /\ pc = "read"
    /\ LET masked == mask_local_crate_versions(manifests, lock_file)
       IN  /\ manifests' = masked.manifests
           /\ lock_file' = masked.lock_file
    /\ pc' = "masked"
    /\ UNCHANGED <<workspace, member, run, config_file, results, cook_vars, recipe_vars, walk_vars>>

\* derive, lines 49-60
DeriveFinish ==
    /\ pc = "masked"
    /\ LET sk == make_skeleton(manifests, config_file, lock_file)
       IN  Return([ok |-> TRUE, skeleton |-> sk, text |-> recipe_to_string(sk),
                   parsed |-> manifests])
    /\ UNCHANGED <<workspace, member, cook_vars, recipe_vars, walk_vars>>

NextPrepare == DeriveRead \/ DeriveReadFails \/ DeriveMask \/ DeriveFinish

SpecPrepare == InitPrepare /\ [][NextPrepare]_vars

----------------------------------------------------------------------------
(* Claims about Skeleton::derive and version masking *)

Finished(r) == results[r] # None /\ results[r][1].ok

\* C1: two derivations of the same workspace return equal Skeletons with the
\* same serialized text, whatever order the metadata lists packages and
\* targets in; the manifests read (with their targets) are equal as well.
C1_DeriveIsDeterministic ==
    (results[1] # None /\ results[2] # None) =>
        /\ results[1][1].ok = results[2][1].ok
        /\ results[1][1].skeleton = results[2][1].skeleton
        /\ results[1][1].text = results[2][1].text
        /\ results[1][1].parsed = results[2][1].parsed

C1_Witness ==
    /\ Finished(1) /\ Finished(2)
    /\ Len(results[2][1].skeleton.manifests) >= 3
    /\ \E i \in DOMAIN results[2][1].parsed : Len(results[2][1].parsed[i].targets) >= 3

\* C2: a workspace and the same workspace with other versions of its local
\* packages (manifests, dependency entries pointing at them, lockfile) derive
\* identical Skeletons.
C2_LocalVersionsAreInvisible ==
    (Finished(1) /\ Finished(NumRuns)) =>
        /\ results[1][1].skeleton = results[NumRuns][1].skeleton
        /\ results[1][1].text = results[NumRuns][1].text

\* the dependency entries of a manifest: (table, position, entry)
EntriesOf(c) ==
    UNION { { [scope |-> "top", at |-> 0, key |-> k, i |-> i, d |-> c.deps[k][i]] :
                    i \in DOMAIN c.deps[k] } : k \in DependencyKeySet }
    \cup UNION { { [scope |-> "target", at |-> t, key |-> k, i |-> i,
                        d |-> c.target[t].deps[k][i]] : i \in DOMAIN c.target[t].deps[k] } :
                     k \in DependencyKeySet, t \in DOMAIN c.target }
        \cup (IF c.workspace = None THEN {}
              ELSE UNION { { [scope |-> "workspace", at |-> 0, key |-> k, i |-> i,
                              d |-> c.workspace[1].deps[k][i]] :
                                i \in DOMAIN c.workspace[1].deps[k] } : k \in DependencyKeySet })

ResolvedName(d) == IF d.package # None THEN d.package[1] ELSE d.key

PackageVersionsMasked ==
    \A i \in DOMAIN manifests :
        LET c == manifests[i].contents
        IN  (c.package # None /\ c.package[1].version # None /\ c.package[1].version[1].kind = "str")
                => c.package[1].version[1].str = "0.0.1"

\* C3 as stated: every dependency entry whose resolved name is local and which
\* carries a version (a `version` field, or the version a string entry is) has
\* the version 0.0.1.
C3_EveryLocalNamedVersionMasked ==
    pc = "masked" =>
        /\ PackageVersionsMasked
        /\ \A i \in DOMAIN manifests : \A e \in EntriesOf(manifests[i].contents) :
            (ResolvedName(e.d) \in LocalNames(Scanned) /\ (e.d.kind = "str" \/ e.d.version # None))
                => (IF e.d.kind = "str" THEN e.d.req ELSE e.d.version[1]) = "0.0.1"

\* C3 amended: after masking every package with a plain version has the version
\* 0.0.1, and every dependency entry written as a table, at top level, under a
\* target table or under the workspace table, whose resolved name is local and
\* which has a `version` field has that field equal to 0.0.1.
C3_LocalTableVersionsMasked ==
    pc = "masked" =>
        /\ PackageVersionsMasked
        /\ \A i \in DOMAIN manifests : \A e \in EntriesOf(manifests[i].contents) :
            (ResolvedName(e.d) \in LocalNames(Scanned) /\ e.d.kind = "table" /\ e.d.version # None)
                => e.d.version[1] = "0.0.1"

C3_Witness ==
    /\ pc = "masked"
    /\ \E i \in DOMAIN manifests : \E e \in EntriesOf(manifests[i].contents) :
        /\ e.key # "dependencies"
        /\ e.d.package = Some("b")
        /\ e.d.version = Some("0.0.1")
        /\ manifests[i].contents.package # None
        /\ manifests[i].contents.package[1].version = Some([kind |-> "str", str |-> "0.0.1"])

\* the entry of the scanned workspace at the place of e
OriginalEntry(path, e) ==
    LET c == Scanned.files[path]
    IN  IF e.scope = "top" THEN c.deps[e.key][e.i]
        ELSE IF e.scope = "target" THEN c.target[e.at].deps[e.key][e.i]
        ELSE c.workspace[1].deps[e.key][e.i]

\* C4: masking leaves the version of every dependency entry that resolves to
\* a registry package (an entry without a path) as it was, also when its key
\* or package name equals a local package name.
C4_RegistryVersionsUntouched ==
    pc = "masked" =>
        \A i \in DOMAIN manifests : \A e \in EntriesOf(manifests[i].contents) :
            e.d.path = None => e.d = OriginalEntry(manifests[i].relative_path, e)

\* C5: the lockfile entries whose version becomes 0.0.1 are exactly those with
\* a local name and no source; every other entry keeps its version.
C5_LockfileMasksLocalOnly ==
    (pc = "masked" /\ lock_file # None) =>
        /\ Len(lock_file[1].package) = Len(Scanned.lock.package)
        /\ \A i \in DOMAIN lock_file[1].package :
            LET before == Scanned.lock.package[i]
                after == lock_file[1].package[i]
            IN  IF /\ before.name # None
                   /\ before.name[1] \in LocalNames(Scanned)
                   /\ before.source = None
                   /\ before.version # None
                THEN after.version = Some("0.0.1")
                ELSE after.version = before.version

C5_Witness ==
    /\ pc = "masked"
    /\ lock_file # None
    /\ \E i, j \in DOMAIN lock_file[1].package :
        /\ lock_file[1].package[i].name = Some("b")
        /\ lock_file[1].package[i].source = None
        /\ lock_file[1].package[i].version = Some("0.0.1")
        /\ lock_file[1].package[j].name = Some("b")
        /\ lock_file[1].package[j].source # None
        /\ lock_file[1].package[j].version = Some("5.5.5")

----------------------------------------------------------------------------
(* Skeleton::build_minimum_project: src/skeleton/mod.rs *)

\* A path is a sequence of pieces whose concatenation is the path; a target or
\* package name is a sequence of pieces too, so that `format!` is concatenation.

FnMain == "fn main() {}"

no_std_entrypoint ==
    "#![no_std]\n#![no_main]\n\n#[panic_handler]\nfn panic(_: &core::panic::PanicInfo) -> ! {\n    loop {}\n}\n"

no_std_test_runner ==
    "#![no_std]\n#![no_main]\n#![feature(custom_test_frameworks)]\n#![test_runner(test_runner)]\n\n#[no_mangle]\npub extern \"C\" fn _init() {}\n\nfn test_runner(_: &[&dyn Fn()]) {}\n\n#[panic_handler]\nfn panic(_: &core::panic::PanicInfo) -> ! {\n    loop {}\n}\n"

NoStdMarker == "#![no_std]"

Write(path, content) == [op |-> "write", path |-> path, content |-> content]
Raise(message) == [op |-> "error", path |-> <<>>, content |-> message]

\* `manifest_path.parent()`, the base path left out
ParentDirectory(relative_path) == SubSeq(relative_path, 1, Len(relative_path) - 1)

\* the path of a [[bin]]: its `path`, else src/bin/<name>.rs for a name that is
\* not the package name, else src/main.rs
binary_relative_path(bin, package_name) ==
    IF bin.path # None THEN bin.path[1]
    ELSE IF bin.name # None /\ bin.name # package_name
    THEN <<"src/bin/">> \o bin.name[1] \o <<".rs">>
    ELSE <<"src/main.rs">>

\* the entrypoint of a binary or an example, with the two modes exchanged
entrypoint_modes_swapped(no_std) == IF no_std THEN FnMain ELSE no_std_entrypoint

\* the entrypoint of a binary or an example
entrypoint(no_std) == IF no_std THEN no_std_entrypoint ELSE FnMain

\* the placeholder of a library that forgets the proc-macro exception
lib_placeholder_ignoring_proc_macro(no_std, lib) == IF no_std THEN NoStdMarker ELSE ""

\* the placeholder of a library
lib_placeholder(no_std, lib) == IF no_std /\ ~lib.proc_macro THEN NoStdMarker ELSE ""

\* the placeholder of a test whatever its harness
test_placeholder_ignoring_harness(no_std, test) ==
    IF no_std THEN no_std_test_runner ELSE ""

\* the placeholder of a test
test_placeholder(no_std, test) ==
    IF no_std
    THEN (IF test.harness THEN no_std_test_runner ELSE no_std_entrypoint)
    ELSE IF test.harness THEN "" ELSE FnMain

\* the placeholder of a benchmark that follows its harness as a test does
bench_placeholder_as_test(no_std, bench) ==
    IF no_std
    THEN (IF bench.harness THEN no_std_test_runner ELSE no_std_entrypoint)
    ELSE IF bench.harness THEN "" ELSE FnMain

\* the placeholder of a benchmark
bench_placeholder(no_std, bench) == FnMain

\* a placeholder written with an empty name when the target has none
named_placeholder_with_default_name(dir, section, p, message, content) ==
    Write(dir \o (IF p.path # None THEN p.path[1]
                  ELSE <<section>> \o (IF p.name # None THEN p.name[1] ELSE <<>>) \o <<".rs">>),
          content)

\* the placeholder of a benchmark, test or example: `name.context(message)?`,
\* then the write at the path, or at the default path made of the name
named_placeholder(dir, section, p, message, content) ==
    IF p.name = None THEN Raise(message)
    ELSE Write(dir \o (IF p.path # None THEN p.path[1]
                       ELSE <<section>> \o p.name[1] \o <<".rs">>),
               content)

\* the steps of build_minimum_project for one manifest, in program order: the
\* manifest itself, then binaries, library, benchmarks, tests, examples and
\* the build script; a step is a write or the error that ends the function
manifest_steps(manifest, parsed, no_std) ==
    LET dir == ParentDirectory(manifest.relative_path)
        package_name == IF parsed.package = None THEN None ELSE Some(parsed.package[1].name)
        named(section, p, message, content) == named_placeholder(dir, section, p, message, content)
    IN  <<Write(manifest.relative_path, manifest.contents)>>
        \o [i \in DOMAIN parsed.bin |->
                Write(dir \o binary_relative_path(parsed.bin[i], package_name), entrypoint(no_std))]
        \o [i \in DOMAIN parsed.lib |->
                Write(dir \o (IF parsed.lib[i].path # None THEN parsed.lib[i].path[1]
                              ELSE <<"src/lib.rs">>),
                      lib_placeholder(no_std, parsed.lib[i]))]
        \o [i \in DOMAIN parsed.bench |->
                named("benches/", parsed.bench[i], "Missing benchmark name.",
                      bench_placeholder(no_std, parsed.bench[i]))]
        \o [i \in DOMAIN parsed.test |->
                named("tests/", parsed.test[i], "Missing test name.",
                      test_placeholder(no_std, parsed.test[i]))]
        \o [i \in DOMAIN parsed.example |->
                named("examples/", parsed.example[i], "Missing example name.", entrypoint(no_std))]
        \o (IF parsed.package # None /\ parsed.package[1].build # None
            THEN <<Write(dir \o parsed.package[1].build[1], FnMain)>>
            ELSE <<>>)

\* the steps up to and without the first error
RECURSIVE UntilError(_)
UntilError(steps) ==
    IF steps = <<>> \/ Head(steps).op = "error" THEN <<>>
    ELSE <<Head(steps)>> \o UntilError(Tail(steps))

\* cargo_manifest::Manifest::from_slice of the manifest texts of the model
\* a target without a `harness` key has the harness
harness_of(key) == IF key = None THEN TRUE ELSE key[1]

Product(name, path, harness, proc_macro) ==
    [name |-> name, path |-> path, harness |-> harness, proc_macro |-> proc_macro]

Parsed(package, bin, lib, bench, test, example) ==
    [package |-> package, bin |-> bin, lib |-> lib, bench |-> bench, test |-> test,
     example |-> example]

CookPackage(name, build) == Some([name |-> name, build |-> build])

from_slice(text) ==
    CASE text = "[workspace]" ->
            Parsed(None, <<>>, None, <<>>, <<>>, <<>>)
      [] text = "[package] name = app" ->
            Parsed(CookPackage(<<"app">>, None),
                   <<Product(Some(<<"app">>), None, TRUE, FALSE),
                     Product(Some(<<"x">>), None, TRUE, FALSE),
                     Product(None, Some(<<"some-path.rs">>), TRUE, FALSE)>>,
                   None,
                   <<Product(Some(<<"k">>), None, harness_of(None), FALSE),
                     Product(Some(<<"j">>), None, harness_of(Some(FALSE)), FALSE)>>,
                   <<Product(Some(<<"t">>), None, harness_of(None), FALSE),
                     Product(Some(<<"n">>), None, harness_of(Some(FALSE)), FALSE),
                     Product(Some(<<"h">>), Some(<<"checks/h.rs">>), harness_of(Some(TRUE)),
                             FALSE)>>,
                   <<Product(Some(<<"e">>), None, TRUE, FALSE),
                     Product(Some(<<"f">>), Some(<<"demo/f.rs">>), TRUE, FALSE)>>)
      [] text = "[package] name = c" ->
            Parsed(CookPackage(<<"c">>, Some(<<"build.rs">>)), <<>>,
                   Some(Product(None, None, TRUE, FALSE)), <<>>, <<>>, <<>>)
      [] text = "[package] name = p-m" ->
            Parsed(CookPackage(<<"p", "-", "m">>, None), <<>>,
                   Some(Product(None, Some(<<"src/pm.rs">>), TRUE, TRUE)), <<>>, <<>>, <<>>)
      [] text = "[package] name = q" ->
            Parsed(CookPackage(<<"q">>, None),
                   <<Product(Some(<<"b1">>), Some(<<"some-path.rs">>), TRUE, FALSE)>>,
                   Some(Product(Some(<<"c", "c">>), None, TRUE, FALSE)), <<>>,
                   <<Product(Some(<<"t1">>), Some(<<"some-path.rs">>), TRUE, FALSE)>>,
                   <<>>)
      [] text = "[package] name = z [[bench]]" ->
            Parsed(CookPackage(<<"z">>, Some(<<"build.rs">>)),
                   <<Product(None, None, TRUE, FALSE)>>,
                   None,
                   <<Product(None, Some(<<"benches/k.rs">>), TRUE, FALSE)>>,
                   <<>>,
                   <<Product(Some(<<"e">>), None, TRUE, FALSE)>>)
      [] text = "[package] name = w [[test]]" ->
            Parsed(CookPackage(<<"w">>, None), <<>>,
                   Some(Product(None, None, TRUE, FALSE)),
                   <<Product(Some(<<"k">>), None, TRUE, FALSE)>>,
                   <<Product(Some(<<"t">>), None, TRUE, FALSE),
                     Product(None, Some(<<"tests/u.rs">>), TRUE, FALSE),
                     Product(None, None, FALSE, FALSE)>>,
                   <<Product(Some(<<"e">>), None, TRUE, FALSE)>>)
      [] OTHER ->
            Parsed(CookPackage(<<"y">>, None), <<>>, None, <<>>,
                   <<Product(Some(<<"t">>), None, TRUE, FALSE)>>,
                   <<Product(None, Some(<<"examples/e.rs">>), TRUE, FALSE)>>)

\* build_minimum_project with the config file saved after the manifests
scaffold_steps_config_last(sk, no_std) ==
    (IF sk.lock_file # None THEN <<Write(<<"Cargo.lock">>, sk.lock_file[1])>> ELSE <<>>)
    \o Concat([i \in DOMAIN sk.manifests |->
            manifest_steps(sk.manifests[i], from_slice(sk.manifests[i].contents), no_std)])
    \o (IF sk.config_file # None
        THEN <<Write(<<".cargo/", "config.toml">>, sk.config_file[1])>>
        ELSE <<>>)

\* every step of build_minimum_project, errors included
scaffold_steps(sk, no_std) ==
    (IF sk.lock_file # None THEN <<Write(<<"Cargo.lock">>, sk.lock_file[1])>> ELSE <<>>)
    \o (IF sk.config_file # None
        THEN <<Write(<<".cargo/", "config.toml">>, sk.config_file[1])>>
        ELSE <<>>)
    \o Concat([i \in DOMAIN sk.manifests |->
            manifest_steps(sk.manifests[i], from_slice(sk.manifests[i].contents), no_std)])

\* build_minimum_project: the writes made, and whether it returned Ok
build_minimum_project(sk, no_std) ==
    LET steps == scaffold_steps(sk, no_std)
    IN  [ok |-> \A i \in DOMAIN steps : steps[i].op # "error",
         writes |-> UntilError(steps)]

\* the files on disk after a log of writes: a later write replaces an earlier one
RECURSIVE DiskAfter(_)
DiskAfter(log) ==
    IF log = <<>> THEN <<>>
    ELSE LET w == log[Len(log)]
             before == DiskAfter(SubSeq(log, 1, Len(log) - 1))
         IN  SelectSeq(before, LAMBDA f : f.path # w.path)
                \o <<[path |-> w.path, content |-> w.content]>>

--------------------------------------------------------------------------
\* Skeleton::remove_compiled_dummies.  A file name is a sequence of pieces,
\* a path a sequence of file names.

StartsWith(s, prefix) ==
    Len(prefix) <= Len(s) /\ SubSeq(s, 1, Len(prefix)) = prefix

\* str::replace('-', "_")
replace_hyphens(name) == [i \in DOMAIN name |-> IF name[i] = "-" THEN "_" ELSE name[i]]

\* str::trim_end_matches(".json")
RECURSIVE target_str(_)
target_str(target) ==
    IF target # <<>> /\ target[Len(target)] = ".json"
    THEN target_str(SubSeq(target, 1, Len(target) - 1))
    ELSE target

profile_directory(profile) ==
    CASE profile.kind = "Release" -> <<"release">>
      [] profile.kind = "Debug" -> <<"debug">>
      [] OTHER -> profile.name

\* the directories remove_compiled_dummies scans
target_directories(a) ==
    LET target_dir == IF a.target_dir = None THEN <<<<"target">>>> ELSE a.target_dir[1]
        per_target == IF a.target = None THEN <<target_dir>>
                      ELSE [i \in DOMAIN a.target[1] |->
                                Append(target_dir, target_str(a.target[1][i]))]
    IN  [i \in DOMAIN per_target |-> Append(per_target[i], profile_directory(a.profile))]

\* the patterns of lib_glob, walked from the root of all output directories
lib_glob_in_any_directory(entry, target_directory, library_name) ==
    \/ StartsWith(entry.rel[Len(entry.rel)], <<"lib">> \o library_name \o <<".">>)
    \/ StartsWith(entry.rel[Len(entry.rel)], <<"lib">> \o library_name \o <<"-">>)

\* `/**/lib{N}.*` and `/**/lib{N}-*` under the target directory
lib_glob(entry, target_directory, library_name) ==
    /\ entry.dir = target_directory
    /\ \/ StartsWith(entry.rel[Len(entry.rel)], <<"lib">> \o library_name \o <<".">>)
       \/ StartsWith(entry.rel[Len(entry.rel)], <<"lib">> \o library_name \o <<"-">>)

\* `/build/{package.name}-*/build[-_]script[-_]build*` under the target directory
build_glob(entry, target_directory, package_name) ==
    /\ entry.dir = target_directory
    /\ Len(entry.rel) = 3
    /\ entry.rel[1] = <<"build">>
    /\ StartsWith(entry.rel[2], package_name \o <<"-">>)
    /\ LET file == entry.rel[3]
       IN  /\ Len(file) >= 5
           /\ file[1] = "build" /\ file[2] \in {"-", "_"}
           /\ file[3] = "script" /\ file[4] \in {"-", "_"}
           /\ file[5] = "build"

\* remove_file of a file, remove_dir_all of a directory
Removed(entries, matched) ==
    { e \in entries : \E m \in matched :
        e.dir = m.dir /\ (e = m \/ (m.kind = "dir" /\ StartsWith(e.rel, m.rel) )) }

\* `let file = file?` on the first item of a walker: walkdir yields an error
\* for a root it cannot stat, and `?` returns it
walk(exists, target_directory) == target_directory \in exists

\* the body of the loop for one package and one target directory: the state
\* is the entries left, the record of what was removed, by which walker and
\* for which package, the directories there are, and whether the function
\* is still running (ok) or has returned an error
remove_for(state, parsed, target_directory) ==
    LET package == parsed.package[1]
        library_names == [i \in DOMAIN parsed.lib |->
            replace_hyphens(IF parsed.lib[i].name # None THEN parsed.lib[i].name[1]
                            ELSE package.name)]
        lib_matches == { e \in state.left : \E i \in DOMAIN library_names :
                            lib_glob(e, target_directory, library_names[i]) }
        lib_removed == Removed(state.left, lib_matches)
        after_lib == state.left \ lib_removed
        build_removed == IF package.build # None
                         THEN { e \in after_lib : build_glob(e, target_directory, package.name) }
                         ELSE {}
    IN  IF ~state.ok THEN state
        ELSE IF (parsed.lib # <<>> \/ package.build # None)
                /\ ~walk(state.exists, target_directory)
        THEN [state EXCEPT !.ok = FALSE]
        ELSE [state EXCEPT
                !.left = after_lib \ build_removed,
                !.deleted = state.deleted
                    \cup { [entry |-> e, by |-> "lib", package |-> package.name] :
                            e \in lib_removed }
                    \cup { [entry |-> e, by |-> "build", package |-> package.name] :
                            e \in build_removed }]

RECURSIVE remove_in_directories(_, _, _)
remove_in_directories(state, parsed, directories) ==
    IF directories = <<>> THEN state
    ELSE remove_in_directories(remove_for(state, parsed, Head(directories)), parsed,
                               Tail(directories))

RECURSIVE remove_in_manifests(_, _, _)
remove_in_manifests(state, ms, directories) ==
    IF ms = <<>> THEN state
    ELSE LET parsed == from_slice(Head(ms).contents)
             next == IF parsed.package # None
                     THEN remove_in_directories(state, parsed, directories)
                     ELSE state
         IN  remove_in_manifests(next, Tail(ms), directories)

\* the entries left, the entries deleted and whether Ok was returned
remove_compiled_dummies(sk, a, entries) ==
    remove_in_manifests([left |-> entries, deleted |-> {}, ok |-> TRUE,
                         exists |-> { e.dir : e \in entries }],
                        sk.manifests, target_directories(a))

--------------------------------------------------------------------------
\* What the spawned cargo leaves in its output directories.

Hash(local) == IF local THEN "1a" ELSE "2b"

Entry(dir, rel, kind, role, package, local) ==
    [dir |-> dir, rel |-> rel, kind |-> kind, role |-> role,
     owner |-> [package |-> package, local |-> local]]

\* the artifacts of one compiled package in one output directory
unit_entries(dir, package, crate, has_lib, proc_macro, has_build, local) ==
    LET h == Hash(local)
        E(rel, kind, role) == Entry(dir, rel, kind, role, package, local)
        extension == IF proc_macro THEN "so" ELSE "rlib"
        build_dir == <<<<"build">>, package \o <<"-", h>>>>
    IN  (IF has_lib
         THEN { E(<<<<"deps">>, <<"lib">> \o crate \o <<"-", h, ".", extension>>>>, "file", "lib"),
                E(<<<<"deps">>, <<"lib">> \o crate \o <<"-", h, ".", "rmeta">>>>, "file", "lib"),
                E(<<<<"deps">>, crate \o <<"-", h, ".", "d">>>>, "file", "dep-info"),
                E(<<<<".fingerprint">>, package \o <<"-", h>>>>, "dir", "fingerprint"),
                E(<<<<".fingerprint">>, package \o <<"-", h>>, <<"lib", "-">> \o crate>>,
                  "file", "fingerprint") }
         ELSE {})
        \cup (IF has_lib /\ local
              THEN { E(<<<<"lib">> \o crate \o <<".", extension>>>>, "file", "lib"),
                     E(<<<<"lib">> \o crate \o <<".", "d">>>>, "file", "lib") }
              ELSE {})
        \cup (IF has_build
              THEN { E(build_dir, "dir", "build-dir"),
                     E(Append(build_dir, <<"build", "_", "script", "_", "build", "-", h>>),
                       "file", "build-script"),
                     E(Append(build_dir, <<"build", "-", "script", "-", "build">>),
                       "file", "build-script"),
                     E(Append(build_dir, <<"output">>), "file", "build-output") }
              ELSE {})

\* the third-party packages a dependency graph may hold
Crate(package, has_build) == [package |-> package, has_build |-> has_build]

ThirdParty ==
    { Crate(<<"c">>, FALSE), Crate(<<"lib", "c">>, TRUE), Crate(<<"c", "c">>, FALSE),
      Crate(<<"c", "-", "x">>, TRUE), Crate(<<"p">>, FALSE), Crate(<<"u">>, TRUE) }

MaxThirdParty == 2

Graphs == { g \in SUBSET ThirdParty : Cardinality(g) <= MaxThirdParty }

\* the directories cargo builds into: `--target-dir` or target, the target
\* name for each `--target`, the directory of the profile
cargo_directories(a) ==
    LET target_dir == IF a.target_dir = None THEN <<<<"target">>>> ELSE a.target_dir[1]
        per_target == IF a.target = None THEN <<target_dir>>
                      ELSE [i \in DOMAIN a.target[1] |->
                                Append(target_dir,
                                       IF a.target[1][i][Len(a.target[1][i])] = ".json"
                                       THEN SubSeq(a.target[1][i], 1, Len(a.target[1][i]) - 1)
                                       ELSE a.target[1][i])]
        profile == CASE a.profile.kind = "Release" -> <<"release">>
                     [] a.profile.kind = "Debug" -> <<"debug">>
                     [] a.profile.name = <<"bench">> -> <<"release">>
                     [] a.profile.name \in {<<"dev">>, <<"test">>} -> <<"debug">>
                     [] OTHER -> a.profile.name
    IN  { Append(per_target[i], profile) : i \in DOMAIN per_target }

\* the output of a build of the scaffold of `sk` with the dependencies `graph`
cargo_output(sk, a, graph) ==
    UNION { UNION { LET parsed == from_slice(sk.manifests[i].contents)
                    IN  IF parsed.package = None THEN {}
                        ELSE unit_entries(dir, parsed.package[1].name,
                                replace_hyphens(IF parsed.lib # None /\ parsed.lib[1].name # None
                                                THEN parsed.lib[1].name[1]
                                                ELSE parsed.package[1].name),
                                parsed.lib # None,
                                parsed.lib # None /\ parsed.lib[1].proc_macro,
                                parsed.package[1].build # None, TRUE)
                    : i \in DOMAIN sk.manifests }
            \cup UNION { unit_entries(dir, c.package, replace_hyphens(c.package), TRUE, FALSE,
                                      c.has_build, FALSE) : c \in graph }
            : dir \in cargo_directories(a) }

--------------------------------------------------------------------------
\* Recipe::cook

CookManifest(relative_path, contents) ==
    [relative_path |-> relative_path, contents |-> contents]

PackageTexts ==
    { "[package] name = app", "[package] name = c", "[package] name = p-m",
      "[package] name = q", "[package] name = z [[bench]]", "[package] name = y [[example]]",
      "[package] name = w [[test]]" }

LibraryTexts == { "[package] name = c", "[package] name = p-m", "[package] name = q" }

CookSkeleton(ms, files) ==
    [manifests |-> ms,
     config_file |-> IF files THEN Some("[build]") ELSE None,
     lock_file |-> IF files THEN Some("version = 3") ELSE None]

SingleManifests(text) == <<CookManifest(<<"Cargo.toml">>, text)>>

WorkspaceManifests(first, second) ==
    <<CookManifest(<<"Cargo.toml">>, "[workspace]"),
      CookManifest(<<"a/", "Cargo.toml">>, first),
      CookManifest(<<"b/", "Cargo.toml">>, second)>>

Skeletons ==
    { CookSkeleton(SingleManifests(t), FALSE) : t \in PackageTexts }
    \cup { CookSkeleton(WorkspaceManifests(t, u), TRUE) :
            t \in PackageTexts, u \in LibraryTexts }

ReclaimedSkeletons ==
    { CookSkeleton(SingleManifests(t), FALSE) : t \in LibraryTexts }
    \cup { CookSkeleton(WorkspaceManifests("[package] name = c", "[package] name = p-m"), TRUE) }

Profile(kind, name) == [kind |-> kind, name |-> name]

\* main.rs: the profile of `--release` and `--profile`
parse_profile(release, profile) ==
    CASE ~release /\ profile = None -> [ok |-> TRUE, profile |-> Profile("Debug", <<>>)]
      [] ~release /\ profile = Some(<<"dev">>) -> [ok |-> TRUE, profile |-> Profile("Debug", <<>>)]
      [] release /\ profile = None -> [ok |-> TRUE, profile |-> Profile("Release", <<>>)]
      [] ~release /\ profile = Some(<<"release">>) ->
            [ok |-> TRUE, profile |-> Profile("Release", <<>>)]
      [] ~release /\ profile # None -> [ok |-> TRUE, profile |-> Profile("Other", profile[1])]
      [] OTHER -> [ok |-> FALSE, profile |-> Profile("Debug", <<>>)]

\* the names `--profile` is given
ProfileNames == { <<"dev">>, <<"release">>, <<"bench">>, <<"test">>, <<"custom">> }

Profiles ==
    { parse_profile(release, profile).profile :
        <<release, profile>> \in
            { c \in BOOLEAN \X ({None} \cup { Some(n) : n \in ProfileNames }) :
                parse_profile(c[1], c[2]).ok } }

CookArgs(no_std, no_build, command, profile, target, target_dir) ==
    [no_std |-> no_std, no_build |-> no_build, command |-> command, profile |-> profile,
     target |-> target, target_dir |-> target_dir]

Targets ==
    { None, Some(<<<<"x86_64">>, <<"thumb", ".json">>>>), Some(<<<<"spec", ".json", ".json">>>>) }

TargetDirs == { None, Some(<<<<"out">>>>) }

\* what earlier builds of the same packages left behind: the output of
\* another profile and the output of another target triple
EarlierOutput(sk, a) ==
    cargo_output(sk, [a EXCEPT !.profile = Profile("Other", <<"earlier">>)], {})
    \cup cargo_output(sk, [a EXCEPT !.target = Some(<<<<"aarch64">>>>)], {})

InitCook ==
    /\ \/ /\ skeleton \in Skeletons
          /\ \E no_std \in BOOLEAN, no_build \in BOOLEAN :
                args = CookArgs(no_std, no_build, "Build", Profile("Release", <<>>), None, None)
          /\ artifacts = {}
       \/ /\ skeleton \in ReclaimedSkeletons
          /\ \E command \in {"Check", "NoBuild"}, profile \in Profiles, target \in Targets,
                target_dir \in TargetDirs :
                args = CookArgs(FALSE, FALSE, command, profile, target, target_dir)
          /\ artifacts \in { {}, EarlierOutput(skeleton, args) }
    /\ cook_pc = "start"
    /\ writes = <<>>
    /\ disk = <<>>
    /\ deleted = {}
    /\ events = <<>>
    /\ workspace = <<>>
    /\ member = None
    /\ run = 1
    /\ pc = "idle"
    /\ manifests = <<>>
    /\ lock_file = None
    /\ config_file = None
    /\ results = <<>>
    /\ recipe = NoSkeleton
    /\ recipe_text = None
    /\ recipe_read = None
    /\ NoWalk

\* cook, lines 69-70: the scaffold is built, or `?` returns its error
CookScaffold ==
    /\ cook_pc = "start"
    /\ LET built == build_minimum_project(skeleton, args.no_std)
       IN  /\ writes' = built.writes
           /\ disk' = DiskAfter(built.writes)
           /\ cook_pc' = IF built.ok THEN "scaffolded" ELSE "failed"
           /\ events' = events \o <<"scaffold", IF built.ok THEN "scaffold ok" ELSE "scaffold error">>
    /\ UNCHANGED <<skeleton, args, artifacts, deleted, prepare_vars, recipe_vars, walk_vars>>

\* cook, line 71, with the test of the flag left out
no_build_ignored(a) == FALSE

\* cook, line 71: `if args.no_build`
no_build(a) == a.no_build

\* cook, lines 71-73
CookNoBuild ==
    /\ cook_pc = "scaffolded"
    /\ no_build(args)
    /\ cook_pc' = "done"
    /\ UNCHANGED <<skeleton, args, writes, disk, artifacts, deleted, events, prepare_vars, recipe_vars, walk_vars>>

\* what spawn and wait can answer
Outcomes == { "spawn failed", "wait failed", "exit code", "signal", "success" }

\* execute_command that looks at no exit status
execute_command_ignoring_status(outcome) ==
    IF outcome \in {"spawn failed", "wait failed"} THEN "panic" ELSE "return"

\* execute_command: a panic unless the child was spawned, waited for and
\* exited with success
execute_command(outcome) ==
    IF outcome = "success" THEN "return" ELSE "panic"

\* build_dependencies returns: CommandArg::NoBuild spawns nothing, any other
\* command is spawned and execute_command returns
BuildDependencies ==
    /\ cook_pc = "scaffolded"
    /\ ~no_build(args)
    /\ \/ /\ args.command = "NoBuild"
          /\ events' = events \o <<"build", "build return">>
          /\ UNCHANGED artifacts
       \/ /\ args.command # "NoBuild"
          /\ \E outcome \in Outcomes \ {"spawn failed"} :
                /\ execute_command(outcome) = "return"
                /\ events' = events \o <<"build", "spawn", outcome, "build return">>
          /\ \E graph \in Graphs : artifacts' = artifacts \cup cargo_output(skeleton, args, graph)
    /\ cook_pc' = "built"
    /\ UNCHANGED <<skeleton, args, writes, disk, deleted, prepare_vars, recipe_vars, walk_vars>>

\* build_dependencies panics: CARGO is not set, or execute_command panics
BuildDependenciesPanics ==
    /\ cook_pc = "scaffolded"
    /\ ~no_build(args)
    /\ \/ /\ events' = events \o <<"build", "panic">>
          /\ UNCHANGED artifacts
       \/ /\ args.command # "NoBuild"
          /\ \E outcome \in Outcomes :
                /\ execute_command(outcome) = "panic"
                /\ events' = events \o <<"build", "spawn", outcome, "panic">>
                /\ IF outcome = "spawn failed" THEN UNCHANGED artifacts
                   ELSE \E graph \in Graphs : artifacts' = artifacts \cup cargo_output(skeleton, args, graph)
    /\ cook_pc' = "panicked"
    /\ UNCHANGED <<skeleton, args, writes, disk, deleted, prepare_vars, recipe_vars, walk_vars>>

\* cook, lines 75-83
CookReclaim ==
    /\ cook_pc = "built"
    /\ LET removed == remove_compiled_dummies(skeleton, args, artifacts)
       IN  /\ artifacts' = removed.left
           /\ deleted' = removed.deleted
           /\ events' = events \o <<"reclaim", IF removed.ok THEN "reclaim ok"
                                                   ELSE "reclaim error">>
           /\ cook_pc' = IF removed.ok THEN "done" ELSE "reclaim failed"
    /\ UNCHANGED <<skeleton, args, writes, disk, prepare_vars, recipe_vars, walk_vars>>

NextCook ==
    CookScaffold \/ CookNoBuild \/ BuildDependencies \/ BuildDependenciesPanics \/ CookReclaim

SpecCook == InitCook /\ [][NextCook]_vars

--------------------------------------------------------------------------
\* Properties of the reclaim.

\* the library names of the packages the Skeleton declares
LocalLibraryNames ==
    { replace_hyphens(IF from_slice(skeleton.manifests[i].contents).lib[1].name # None
                      THEN from_slice(skeleton.manifests[i].contents).lib[1].name[1]
                      ELSE from_slice(skeleton.manifests[i].contents).package[1].name) :
        i \in { j \in DOMAIN skeleton.manifests :
                    /\ from_slice(skeleton.manifests[j].contents).package # None
                    /\ from_slice(skeleton.manifests[j].contents).lib # None } }

FileName(entry) == entry.rel[Len(entry.rel)]

\* C6: whatever the library walker of remove_compiled_dummies deletes
\* belongs to a package of the Skeleton, never to a third-party dependency,
\* and a deleted library file is named lib<N>.<ext> or lib<N>-<suffix> for
\* the normalised name N of a library of the Skeleton.
C6_OnlyLocalLibrariesDeleted ==
    \A d \in deleted :
        d.by = "lib" =>
            /\ d.entry.owner.local
            /\ d.entry.role = "lib" =>
                \E N \in LocalLibraryNames :
                    \/ StartsWith(FileName(d.entry), <<"lib">> \o N \o <<".">>)
                    \/ StartsWith(FileName(d.entry), <<"lib">> \o N \o <<"-">>)

\* C7: a build-script binary deleted for a package P with a build script
\* lies in a build directory of P itself; the build directories of every
\* other package keep theirs.
C7_OnlyOwnBuildScriptsDeleted ==
    \A d \in deleted :
        d.by = "build" => d.entry.owner.local /\ d.entry.owner.package = d.package

--------------------------------------------------------------------------
\* Properties of cook.

Positions(event) == { i \in DOMAIN events : events[i] = event }

Happened(event) == Positions(event) # {}

\* C8: the scaffold, the build and the reclaim run in this order, each one
\* over before the next begins; a failed scaffold spawns no build; a build
\* that cannot be spawned, exits with a code or dies of a signal is not
\* spawned again, ends cook, and no compiled dummy is ever removed.
C8_PhasesInOrder ==
    /\ events # <<>> => events[1] = "scaffold"
    /\ \A i \in Positions("scaffold") : i = 1
    /\ \A i \in Positions("build") : i = 3 /\ events[2] = "scaffold ok"
    /\ \A i \in Positions("reclaim") : i > 3 /\ events[i - 1] = "build return"
    /\ Cardinality(Positions("spawn")) <= 1
    /\ Happened("scaffold error") =>
            /\ ~Happened("build") /\ ~Happened("spawn") /\ ~Happened("reclaim")
            /\ cook_pc = "failed" /\ artifacts = {} /\ deleted = {}
    /\ \A outcome \in {"spawn failed", "exit code", "signal"} :
            Happened(outcome) =>
                /\ ~Happened("reclaim")
                /\ cook_pc = "panicked"
                /\ deleted = {}
                /\ ~ENABLED CookReclaim /\ ~ENABLED BuildDependencies

C8_Witness ==
    /\ Happened("signal")
    /\ cook_pc = "panicked"
    /\ artifacts # {}

--------------------------------------------------------------------------
\* Properties of the scaffold.

Scaffolded == cook_pc \in {"scaffolded", "built", "panicked", "done", "reclaim failed"}

Wrote(path, content) ==
    \E i \in DOMAIN writes : writes[i].path = path /\ writes[i].content = content

Directory(i) ==
    SubSeq(skeleton.manifests[i].relative_path, 1, Len(skeleton.manifests[i].relative_path) - 1)

ParsedAt(i) == from_slice(skeleton.manifests[i].contents)

\* the path of a binary as Cargo resolves it
BinaryPath(i, bin) ==
    IF bin.path # None THEN bin.path[1]
    ELSE IF bin.name = None \/ bin.name[1] = ParsedAt(i).package[1].name
         THEN <<"src/main.rs">>
         ELSE <<"src/bin/">> \o bin.name[1] \o <<".rs">>

ExamplePath(example) ==
    IF example.path # None THEN example.path[1]
    ELSE <<"examples/">> \o example.name[1] \o <<".rs">>

\* C9: once the scaffold is built, the path of every binary and of every
\* example has been written with `fn main() {}` in hosted mode and with the
\* freestanding entrypoint in no_std mode.
C9_EntrypointPlaceholders ==
    Scaffolded =>
        \A i \in DOMAIN skeleton.manifests :
            LET expected == IF args.no_std
                            THEN "#![no_std]\n#![no_main]\n\n#[panic_handler]\nfn panic(_: &core::panic::PanicInfo) -> ! {\n    loop {}\n}\n"
                            ELSE "fn main() {}"
            IN  /\ \A b \in DOMAIN ParsedAt(i).bin :
                    Wrote(Directory(i) \o BinaryPath(i, ParsedAt(i).bin[b]), expected)
                /\ \A e \in DOMAIN ParsedAt(i).example :
                    Wrote(Directory(i) \o ExamplePath(ParsedAt(i).example[e]), expected)

C9_Witness ==
    /\ Scaffolded
    /\ args.no_std
    /\ \E i \in DOMAIN skeleton.manifests :
            Len(ParsedAt(i).bin) > 1 /\ Len(ParsedAt(i).example) > 1

LibraryPath(lib) == IF lib.path # None THEN lib.path[1] ELSE <<"src/lib.rs">>

\* C10: once the scaffold is built, the path of every library has been
\* written with the empty text in hosted mode and, in no_std mode, with
\* `#![no_std]`, unless the library is a proc-macro, which gets the empty
\* text in both modes.
C10_LibraryPlaceholders ==
    Scaffolded =>
        \A i \in DOMAIN skeleton.manifests :
            \A l \in DOMAIN ParsedAt(i).lib :
                LET lib == ParsedAt(i).lib[l]
                    path == Directory(i) \o LibraryPath(lib)
                IN  /\ ~args.no_std => Wrote(path, "")
                    /\ args.no_std /\ ~lib.proc_macro => Wrote(path, "#![no_std]")
                    /\ lib.proc_macro => Wrote(path, "") /\ ~Wrote(path, "#![no_std]")

C10_Witness ==
    /\ Scaffolded
    /\ args.no_std
    /\ \E i \in DOMAIN skeleton.manifests :
            ParsedAt(i).lib # None /\ ParsedAt(i).lib[1].proc_macro

TestPath(test) ==
    IF test.path # None THEN test.path[1] ELSE <<"tests/">> \o test.name[1] \o <<".rs">>

CustomTestRunnerStub ==
    "#![no_std]\n#![no_main]\n#![feature(custom_test_frameworks)]\n#![test_runner(test_runner)]\n\n#[no_mangle]\npub extern \"C\" fn _init() {}\n\nfn test_runner(_: &[&dyn Fn()]) {}\n\n#[panic_handler]\nfn panic(_: &core::panic::PanicInfo) -> ! {\n    loop {}\n}\n"

FreestandingStub ==
    "#![no_std]\n#![no_main]\n\n#[panic_handler]\nfn panic(_: &core::panic::PanicInfo) -> ! {\n    loop {}\n}\n"

\* what the placeholder table says of a target with or without the harness
TableSays(harness, no_std) ==
    CASE harness /\ ~no_std -> ""
      [] ~harness /\ ~no_std -> "fn main() {}"
      [] harness /\ no_std -> CustomTestRunnerStub
      [] OTHER -> FreestandingStub

\* the writes of the scaffold at a path
WrittenAt(path) == { writes[i].content : i \in { j \in DOMAIN writes : writes[j].path = path } }

\* C11: once the scaffold is built, the path of every test has been written
\* with the empty text (harness, hosted), `fn main() {}` (no harness,
\* hosted), the custom test runner (harness, no_std) or the freestanding
\* entrypoint (no harness, no_std), and with nothing else when no other
\* target shares the path; a test that says nothing of its harness has it.
C11_TestPlaceholders ==
    Scaffolded =>
        \A i \in DOMAIN skeleton.manifests :
            \A t \in DOMAIN ParsedAt(i).test :
                LET test == ParsedAt(i).test[t]
                    path == Directory(i) \o TestPath(test)
                IN  /\ Wrote(path, TableSays(test.harness, args.no_std))
                    /\ ParsedAt(i).bin = <<>> => WrittenAt(path) = {TableSays(test.harness, args.no_std)}
                    /\ test.name = Some(<<"t">>) => Wrote(path, TableSays(TRUE, args.no_std))

C11_Witness ==
    /\ Scaffolded
    /\ args.no_std
    /\ \E i \in DOMAIN skeleton.manifests :
        \E t, u \in DOMAIN ParsedAt(i).test :
            ParsedAt(i).test[t].harness /\ ~ParsedAt(i).test[u].harness

BenchPath(bench) ==
    IF bench.path # None THEN bench.path[1] ELSE <<"benches/">> \o bench.name[1] \o <<".rs">>

--------------------------------------------------------------------------
\* Properties of the member selection and of the manifests read.

\* the directory of a manifest of the model, relative to the root
DirectoryOfManifest(path) ==
    CASE path = "a/Cargo.toml" -> "a"
      [] path = "b/Cargo.toml" -> "b"
      [] path = "crates/a/Cargo.toml" -> "crates/a"
      [] OTHER -> "."

\* the manifests of the workspace's packages that declare the package `name`
ManifestsOfPackage(ws, name) ==
    { ws.packages[i].manifest_path : i \in { j \in DOMAIN ws.packages :
        /\ ws.files[ws.packages[j].manifest_path].package # None
        /\ ws.files[ws.packages[j].manifest_path].package[1].name = name } }

RootOf(result) ==
    { result.parsed[i] : i \in { j \in DOMAIN result.parsed :
                                    result.parsed[j].relative_path = "Cargo.toml" } }

\* C13: a derivation with a requested member leaves in the root manifest a
\* `members` list of one entry, the directory of the requested package
\* relative to the root; every other manifest of the workspace is still in
\* the Skeleton, with its package and workspace tables as they were read.
C13_MembersNarrowedToDirectory ==
    (Finished(1) /\ member # None) =>
        /\ \A root \in RootOf(results[1][1]) :
            (root.contents.workspace # None /\ workspace.files["Cargo.toml"].workspace[1].members # None)
                => \E path \in ManifestsOfPackage(workspace, member[1]) :
                        root.contents.workspace[1].members = Some(<<DirectoryOfManifest(path)>>)
        /\ \A i \in DOMAIN workspace.packages :
            \E j \in DOMAIN results[1][1].parsed :
                /\ results[1][1].parsed[j].relative_path = workspace.packages[i].manifest_path
                /\ results[1][1].skeleton.manifests[j].relative_path = workspace.packages[i].manifest_path
                /\ results[1][1].parsed[j].relative_path # "Cargo.toml" =>
                    /\ results[1][1].parsed[j].contents.workspace
                            = workspace.files[workspace.packages[i].manifest_path].workspace
                    /\ results[1][1].parsed[j].contents.package[1].name
                            = workspace.files[workspace.packages[i].manifest_path].package[1].name

\* C14: a derivation with a requested member of a workspace whose root
\* manifest has `default-members` returns a root manifest without that field.
C14_DefaultMembersRemoved ==
    (Finished(1) /\ member # None) =>
        \A i \in DOMAIN results[1][1].skeleton.manifests :
            ( /\ results[1][1].skeleton.manifests[i].relative_path = "Cargo.toml"
              /\ workspace.files["Cargo.toml"].workspace # None
              /\ workspace.files["Cargo.toml"].workspace[1].default_members # None )
                => /\ "default-members =" \notin Range(results[1][1].skeleton.manifests[i].contents)
                   /\ results[1][1].parsed[i].contents.workspace[1].default_members = None

PathsOf(result) ==
    [i \in DOMAIN result.skeleton.manifests |-> result.skeleton.manifests[i].relative_path]

MemberManifests(ws) == { ws.packages[i].manifest_path : i \in DOMAIN ws.packages }

ResolvePath(from, path) ==
    CASE from = "crates/a/Cargo.toml" /\ path = "../../../x" -> "../x/Cargo.toml"
      [] from = "../x/Cargo.toml" /\ path = "../y" -> "../y/Cargo.toml"
      [] from = "a/Cargo.toml" /\ path = "../b" -> "b/Cargo.toml"
      [] OTHER -> "Cargo.toml"

PathDependenciesOf(ws, from) ==
    { ResolvePath(from, e.d.path[1]) : e \in { x \in EntriesOf(ws.files[from]) : x.d.path # None } }

\* the manifests reached from a set of manifests through path dependencies
RECURSIVE PathClosure(_, _)
PathClosure(ws, reached) ==
    LET more == reached \cup UNION { PathDependenciesOf(ws, from) : from \in reached }
    IN  IF more = reached THEN reached ELSE PathClosure(ws, more)

\* the manifests of the path dependencies that lie in another workspace
ForeignPathDependencies(ws) ==
    { p \in PathClosure(ws, MemberManifests(ws)) : p \in {"../x/Cargo.toml", "../y/Cargo.toml"} }

\* C16: the manifest of every path dependency that lies in another
\* workspace, and of every path dependency of such a package in turn, is
\* among the manifests of the derived Skeleton.
C16_ForeignPathDependenciesIncluded ==
    Finished(1) => ForeignPathDependencies(workspace) \subseteq Range(PathsOf(results[1][1]))

\* C17: the manifests of every derived Skeleton are in strictly ascending
\* order of relative_path: sorted, and no relative path twice.
C17_ManifestsStrictlyAscending ==
    \A r \in 1..NumRuns :
        Finished(r) =>
            \A i, j \in DOMAIN PathsOf(results[r][1]) :
                i < j => PathRank(PathsOf(results[r][1])[i]) < PathRank(PathsOf(results[r][1])[j])

C17_Witness ==
    /\ Finished(1)
    /\ workspace.root_is_package
    /\ Len(PathsOf(results[1][1])) = 3

--------------------------------------------------------------------------
\* The frame of the masking.

EraseDependencyVersions(tables) ==
    [k \in DOMAIN tables |->
        [i \in DOMAIN tables[k] |->
            IF tables[k][i].version # None
            THEN [tables[k][i] EXCEPT !.version = Some("*")]
            ELSE tables[k][i]]]

\* the contents of a manifest with every version field blanked
EraseVersions(c) ==
    [package |-> IF c.package # None /\ c.package[1].version # None
                 THEN Some([c.package[1] EXCEPT !.version = Some("*")])
                 ELSE c.package,
     deps |-> EraseDependencyVersions(c.deps),
     target |-> [i \in DOMAIN c.target |->
                    [c.target[i] EXCEPT !.deps = EraseDependencyVersions(@)]],
     workspace |-> IF c.workspace = None THEN None
                   ELSE Some([c.workspace[1] EXCEPT
                                !.package_version = IF @ # None THEN Some("*") ELSE @,
                                !.deps = EraseDependencyVersions(@)])]

SameManifestsButVersions(before, after) ==
    /\ Len(before) = Len(after)
    /\ \A i \in DOMAIN before :
        /\ before[i].relative_path = after[i].relative_path
        /\ before[i].targets = after[i].targets
        /\ EraseVersions(before[i].contents) = EraseVersions(after[i].contents)

SameLockButVersions(before, after) ==
    /\ (before = None) = (after = None)
    /\ before # None =>
        /\ Len(before[1].package) = Len(after[1].package)
        /\ \A i \in DOMAIN before[1].package :
            /\ before[1].package[i].name = after[1].package[i].name
            /\ before[1].package[i].source = after[1].package[i].source
            /\ before[1].package[i].checksum = after[1].package[i].checksum
            /\ before[1].package[i].dependencies = after[1].package[i].dependencies
            /\ (before[1].package[i].version = None) = (after[1].package[i].version = None)

--------------------------------------------------------------------------
\* The toolchain pin file.

\* the pin file of a workspace: rust-toolchain when it is there, else
\* rust-toolchain.toml, else none
PinFileOf(ws) ==
    IF ws.rust_toolchain.state = "ok"
    THEN Some([kind |-> "Bare", name |-> "rust-toolchain", text |-> ws.rust_toolchain.text])
    ELSE IF ws.rust_toolchain_toml.state = "ok"
    THEN Some([kind |-> "Toml", name |-> "rust-toolchain.toml",
               text |-> ws.rust_toolchain_toml.text])
    ELSE None

\* C19: the Skeleton derived from a workspace with a toolchain pin file holds
\* the text and the kind of that file, rust-toolchain before
\* rust-toolchain.toml, which is what the scaffold then writes back under
\* the same name; without a pin file it holds none.
C19_ToolchainCaptured ==
    Finished(1) =>
        IF PinFileOf(workspace) = None
        THEN "rust_toolchain" \in DOMAIN results[1][1].skeleton
                => results[1][1].skeleton.rust_toolchain = None
        ELSE /\ "rust_toolchain" \in DOMAIN results[1][1].skeleton
             /\ results[1][1].skeleton.rust_toolchain # None
             /\ results[1][1].skeleton.rust_toolchain[1].kind = PinFileOf(workspace)[1].kind
             /\ results[1][1].skeleton.rust_toolchain[1].text = PinFileOf(workspace)[1].text

--------------------------------------------------------------------------
\* The recipe file: `prepare` serialises a Recipe, `cook` deserialises it.

\* the longest manifest list of a Recipe of the model
MaxManifests == 2

\* the texts a field of a Skeleton may hold
Texts ==
    { <<>>, <<"a">>, <<"\"">>, <<"\\">>, <<"\n">>, <<"\\", "n">>, <<"n", "u", "l", "l">>,
      <<"a", "\"", ",", "{", "\\", "\"">>, <<"]", "}", "\n", "\n">> }

RecipePaths == <<<<"C">>, <<"a", "/", "C">>, <<"b", "\\", "C">>, <<"\"", "C">>>>

ManifestLists ==
    { [i \in 1..n |-> [relative_path |-> RecipePaths[i], contents |-> c]] :
        n \in 0..(IF MaxManifests < Len(RecipePaths) THEN MaxManifests ELSE Len(RecipePaths)),
        c \in {<<"a">>, <<"a", "\"", ",", "{", "\\", "\"">>} }

OptionalTexts == {None} \cup { Some(t) : t \in Texts }

InitRecipe ==
    /\ \/ \E ms \in ManifestLists, config \in OptionalTexts, lock \in {None, Some(<<"a">>)} :
            recipe = [manifests |-> ms, config_file |-> config, lock_file |-> lock]
       \/ \E path \in Range(RecipePaths), contents \in Texts, lock \in OptionalTexts :
            recipe = [manifests |-> <<[relative_path |-> path, contents |-> contents]>>,
                      config_file |-> None, lock_file |-> lock]
    /\ recipe_text = None
    /\ recipe_read = None
    /\ workspace = <<>>
    /\ member = None
    /\ run = 1
    /\ pc = "idle"
    /\ manifests = <<>>
    /\ lock_file = None
    /\ config_file = None
    /\ results = <<>>
    /\ skeleton = NoSkeleton
    /\ args = <<>>
    /\ cook_pc = "idle"
    /\ writes = <<>>
    /\ disk = <<>>
    /\ artifacts = {}
    /\ deleted = {}
    /\ events = <<>>
    /\ NoWalk

\* main.rs, Command::Prepare: the Recipe is serialised and saved
SaveRecipe ==
    /\ recipe_text = None
    /\ recipe_text' = Some(serde_json_to_string(recipe))
    /\ UNCHANGED <<recipe, recipe_read, prepare_vars, cook_vars, walk_vars>>

\* main.rs, Command::Cook: the saved text is read and deserialised
LoadRecipe ==
    /\ recipe_text # None
    /\ recipe_read = None
    /\ recipe_read' = Some(serde_json_from_str(recipe_text[1]))
    /\ UNCHANGED <<recipe, recipe_text, prepare_vars, cook_vars, walk_vars>>

NextRecipe == SaveRecipe \/ LoadRecipe

SpecRecipe == InitRecipe /\ [][NextRecipe]_vars

\* C20: the Skeleton read back from the text a Recipe was serialised to is
\* the Skeleton that was serialised, also with no lockfile, no config file
\* and no manifest.
C20_RecipeRoundTrip ==
    recipe_read # None => (recipe_read[1].ok /\ recipe_read[1].value = recipe)

C20_Witness ==
    /\ recipe_read # None
    /\ recipe.manifests # <<>>
    /\ recipe.config_file = None
    /\ recipe.lock_file # None
    /\ "\"" \in Range(recipe.lock_file[1])
    /\ "\\" \in Range(recipe.manifests[1].contents)

--------------------------------------------------------------------------
\* Properties of `--no-build`.

\* C21: a cook with no_build set writes the scaffold, then returns: the
\* build tool is never spawned and remove_compiled_dummies never runs, so
\* nothing is compiled and nothing is deleted.
C21_NoBuildOnlyScaffolds ==
    args.no_build =>
        /\ ~Happened("build") /\ ~Happened("spawn") /\ ~Happened("reclaim")
        /\ artifacts = {} /\ deleted = {}
        /\ cook_pc \notin {"built", "panicked"}
        /\ cook_pc = "done" =>
              /\ Happened("scaffold ok")
              /\ \A i \in DOMAIN skeleton.manifests :
                    \E w \in DOMAIN writes :
                        /\ writes[w].path = skeleton.manifests[i].relative_path
                        /\ writes[w].content = skeleton.manifests[i].contents
                        /\ \E f \in DOMAIN disk : disk[f].path = writes[w].path

C21_Witness ==
    /\ args.no_build
    /\ cook_pc = "done"
    /\ Len(skeleton.manifests) = 3
    /\ Len(writes) > 3

--------------------------------------------------------------------------
\* The order of the writes of build_minimum_project.

\* how many files are written before the first manifest
Prelude ==
    (IF skeleton.lock_file # None THEN 1 ELSE 0) + (IF skeleton.config_file # None THEN 1 ELSE 0)

\* where the text of the i-th manifest of the Skeleton was written
TextAt(i) ==
    { w \in DOMAIN writes :
        /\ writes[w].path = skeleton.manifests[i].relative_path
        /\ writes[w].content = skeleton.manifests[i].contents }

\* the manifests whose text was written at or before the w-th write
TextsBefore(w) ==
    { i \in DOMAIN skeleton.manifests : \E t \in TextAt(i) : t <= w }

--------------------------------------------------------------------------
\* The directories remove_compiled_dummies scans.

\* the directory Cargo builds a profile into
OutputDirectoryOf(profile) ==
    CASE profile.kind = "Release" -> <<"release">>
      [] profile.kind = "Debug" -> <<"debug">>
      [] profile.name = <<"bench">> -> <<"release">>
      [] profile.name \in {<<"dev">>, <<"test">>} -> <<"debug">>
      [] OTHER -> profile.name

\* C23: remove_compiled_dummies scans `release` for the release profile and
\* for a profile named bench, `debug` for the debug profile and for profiles
\* named dev or test, and the directory named after the profile for any other.
C23_ProfileDirectories ==
    Happened("reclaim") =>
        \A i \in DOMAIN target_directories(args) :
            LET directory == target_directories(args)[i]
            IN  directory[Len(directory)] = OutputDirectoryOf(args.profile)

\* a file name without its `.json` suffix
WithoutJsonSuffix(target) ==
    IF target # <<>> /\ target[Len(target)] = ".json"
    THEN SubSeq(target, 1, Len(target) - 1)
    ELSE target

\* C24: the directories scanned are R/<profile directory> with no target
\* triple and R/<t>/<profile directory> for every triple t given, R being the
\* `--target-dir` when given and `target` under the base path when not, and
\* a triple that names a `.json` file counting without that suffix.
C24_CandidateDirectories ==
    Happened("reclaim") =>
        LET R == IF args.target_dir = None THEN <<<<"target">>>> ELSE args.target_dir[1]
            scanned == { target_directories(args)[i] : i \in DOMAIN target_directories(args) }
        IN  scanned =
                IF args.target = None
                THEN { Append(R, profile_directory(args.profile)) }
                ELSE { Append(Append(R, WithoutJsonSuffix(args.target[1][i])),
                              profile_directory(args.profile)) : i \in DOMAIN args.target[1] }

--------------------------------------------------------------------------
\* Output directories that are not there.

\* the output directories there were when remove_compiled_dummies began
ExistingDirectories ==
    { e.dir : e \in artifacts } \cup { d.entry.dir : d \in deleted }

\* C25: remove_compiled_dummies returns Ok also when a directory it scans
\* does not exist, having found nothing to delete there (no deletion fails in
\* the model, so it always returns Ok).
C25_MissingDirectoryIsNoError ==
    Happened("reclaim") =>
        /\ Happened("reclaim ok")
        /\ cook_pc = "done"

--------------------------------------------------------------------------
\* Targets without a name.

\* the benchmarks, tests and examples of the i-th manifest that have no name
NamelessTargets(i) ==
    { p \in Range(ParsedAt(i).bench) \cup Range(ParsedAt(i).test)
            \cup Range(ParsedAt(i).example) : p.name = None }

\* C27: build_minimum_project returns an error when a benchmark, test or
\* example of a manifest of the Skeleton has no name, and nothing is written
\* at the path of that target.
C27_NamelessTargetIsAnError ==
    cook_pc # "start" =>
        \A i \in DOMAIN skeleton.manifests :
            \A p \in NamelessTargets(i) :
                /\ cook_pc = "failed"
                /\ Happened("scaffold error")
                /\ ~Happened("scaffold ok")
                /\ p.path # None => WrittenAt(Directory(i) \o p.path[1]) = {}

C27_Witness ==
    /\ cook_pc = "failed"
    /\ \E i \in DOMAIN skeleton.manifests :
          /\ \E p \in Range(ParsedAt(i).test) : p.name = None /\ p.path # None
          /\ WrittenAt(Directory(i) \o <<"tests/", "t", ".rs">>) # {}
          /\ WrittenAt(Directory(i) \o <<"examples/", "e", ".rs">>) = {}

--------------------------------------------------------------------------
\* What remove_compiled_dummies leaves alone.

\* C30: remove_compiled_dummies deletes only entries of the directories it
\* scans and adds none; the Skeleton and the files of the scaffold are as
\* they were.
C30_ReclaimFrame ==
    [][(cook_pc = "built" /\ cook_pc' # "built") =>
            /\ skeleton' = skeleton
            /\ writes' = writes
            /\ disk' = disk
            /\ artifacts' \subseteq artifacts
            /\ \A e \in artifacts \ artifacts' :
                    \E i \in DOMAIN target_directories(args) :
                        e.dir = target_directories(args)[i]]_vars

C30_Witness ==
    /\ cook_pc = "done"
    /\ deleted # {}
    /\ disk # <<>>
    /\ \E e \in artifacts :
          /\ e.owner.local
          /\ e.role = "lib"
          /\ e.dir[Len(e.dir)] = <<"earlier">>
    /\ \E e \in artifacts :
          /\ e.owner.local
          /\ e.role = "lib"
          /\ <<"aarch64">> \in Range(e.dir)

--------------------------------------------------------------------------
\* Errors of reading the lockfile and the config file.

\* a read of the lockfile or of a config file fails with an error that is
\* not NotFound: `.cargo/config.toml` is read when `.cargo/config` is not
\* there to be read
OtherIoError(ws) ==
    \/ ws.lock_state = "denied"
    \/ ws.config.state = "denied"
    \/ ws.config.state = "absent" /\ ws.config_toml.state = "denied"

\* C26: derive fails when reading the lockfile or a config file meets an
\* error other than not-found, and otherwise succeeds, with no lock_file in
\* the Skeleton when there is no lockfile and no config_file when there is
\* neither `.cargo/config` nor `.cargo/config.toml`.
C26_OnlyOtherIoErrorsFail ==
    results[1] # None =>
        /\ OtherIoError(workspace) => ~results[1][1].ok
        /\ ~OtherIoError(workspace) =>
              /\ results[1][1].ok
              /\ workspace.lock_state = "absent" => results[1][1].skeleton.lock_file = None
              /\ (workspace.config.state = "absent" /\ workspace.config_toml.state = "absent")
                    => results[1][1].skeleton.config_file = None

--------------------------------------------------------------------------
\* skeleton.rs: read_manifests walks the tree for `/**/Cargo.toml`.

\* the most items a walker of the model yields
MaxWalk == 3

\* Ok(entry): a Cargo.toml that was found; `file` says what reading and
\* parsing it gives
WalkEntry(path, file) == [kind |-> "entry", path |-> path, file |-> file, io |-> None]

\* Err(WalkError): `io` is e.io_error() with the kind of the error, None for
\* an error that is not an I/O error (a loop of links)
WalkErr(io) == [kind |-> "error", path |-> "", file |-> "", io |-> io]

WalkPaths == { "Cargo.toml", "a/Cargo.toml", "b/Cargo.toml" }

WalkItems ==
    { WalkEntry(p, f) : p \in WalkPaths, f \in {"ok", "denied", "malformed"} }
    \cup { WalkErr(io) : io \in {Some("PermissionDenied"), Some("NotFound"), None} }

\* the walker yields a path once
Walks ==
    { w \in UNION { [1..n -> WalkItems] : n \in 0..MaxWalk } :
        \A i, j \in DOMAIN w :
            (i # j /\ w[i].kind = "entry" /\ w[j].kind = "entry") => w[i].path # w[j].path }

\* handle_walk_error that skips every error
handle_walk_error_ignoring_all(e) == "Ignore"

handle_walk_error(e) ==
    IF e.io # None /\ e.io[1] = "PermissionDenied" THEN "Ignore" ELSE "Crash"

InitWalk ==
    /\ walker \in Walks
    /\ walk_at = 1
    /\ walk_manifests = <<>>
    /\ walk_log = <<>>
    /\ walk_result = "running"
    /\ workspace = <<>>
    /\ member = None
    /\ run = 1
    /\ pc = "idle"
    /\ manifests = <<>>
    /\ lock_file = None
    /\ config_file = None
    /\ results = <<>>
    /\ Idle

\* the Ok arm of the loop: the manifest is read, parsed and pushed, or `?`
\* returns the error of reading or parsing it
WalkManifest ==
    /\ walk_result = "running"
    /\ walk_at <= Len(walker)
    /\ walker[walk_at].kind = "entry"
    /\ IF walker[walk_at].file = "ok"
       THEN /\ walk_manifests' = Append(walk_manifests,
                                        [relative_path |-> walker[walk_at].path,
                                         contents |-> walker[walk_at].path])
            /\ walk_at' = walk_at + 1
            /\ UNCHANGED walk_result
       ELSE /\ walk_result' = "Err"
            /\ UNCHANGED <<walk_manifests, walk_at>>
    /\ UNCHANGED <<walker, walk_log, prepare_vars, cook_vars, recipe_vars>>

\* the Err arm of the loop
WalkError ==
    /\ walk_result = "running"
    /\ walk_at <= Len(walker)
    /\ walker[walk_at].kind = "error"
    /\ IF handle_walk_error(walker[walk_at]) = "Ignore"
       THEN /\ walk_log' = Append(walk_log, "Missing permission to read entry")
            /\ walk_at' = walk_at + 1
            /\ UNCHANGED walk_result
       ELSE /\ walk_result' = "Err"
            /\ UNCHANGED <<walk_log, walk_at>>
    /\ UNCHANGED <<walker, walk_manifests, prepare_vars, cook_vars, recipe_vars>>

\* the walker is exhausted: Ok(manifests)
WalkReturn ==
    /\ walk_result = "running"
    /\ walk_at > Len(walker)
    /\ walk_result' = "Ok"
    /\ UNCHANGED <<walker, walk_at, walk_manifests, walk_log, prepare_vars, cook_vars,
                   recipe_vars>>

NextWalk == WalkManifest \/ WalkError \/ WalkReturn

SpecWalk == InitWalk /\ [][NextWalk]_vars

PermissionDenied(item) ==
    item.kind = "error" /\ item.io = Some("PermissionDenied")

OtherWalkError(item) ==
    item.kind = "error" /\ item.io # Some("PermissionDenied")

\* the items the loop is through with
Handled == SubSeq(walker, 1, walk_at - 1)

\* C28: a walk error of permission denied is logged and skipped and the loop
\* goes on with the next item; any other walk error ends read_manifests with
\* an error; the manifests read so far are the entries the loop is through
\* with, those before a skipped item included.
C28_PermissionErrorsAreSkipped ==
    /\ \A k \in DOMAIN Handled : ~OtherWalkError(walker[k])
    /\ Len(walk_log) = Len(SelectSeq(Handled, PermissionDenied))
    /\ [k \in DOMAIN walk_manifests |-> walk_manifests[k].relative_path]
            = [k \in DOMAIN SelectSeq(Handled, LAMBDA item : item.kind = "entry") |->
                    SelectSeq(Handled, LAMBDA item : item.kind = "entry")[k].path]
    /\ walk_result = "Ok" =>
            /\ walk_at = Len(walker) + 1
            /\ \A k \in DOMAIN walker : ~OtherWalkError(walker[k])
    /\ (walk_result = "running" /\ walk_at <= Len(walker) /\ OtherWalkError(walker[walk_at]))
            => ~ENABLED WalkManifest /\ ~ENABLED WalkReturn
    /\ walk_result = "Err" =>
            /\ walk_at <= Len(walker)
            /\ ~PermissionDenied(walker[walk_at])

C28_Witness ==
    /\ walk_result = "Ok"
    /\ Len(walker) = 3
    /\ walker[1].kind = "entry"
    /\ PermissionDenied(walker[2])
    /\ walker[3].kind = "entry"
    /\ Len(walk_manifests) = 2
    /\ Len(walk_log) = 1

--------------------------------------------------------------------------
\* Masking twice.

\* C29: masking what mask_local_crate_versions returned changes nothing, and
\* the local package names of the masked manifests are those of the
\* manifests that were masked.
C29_MaskingIsIdempotent ==
    [][(pc = "read" /\ pc' = "masked") =>
            /\ mask_local_crate_versions(manifests', lock_file')
                    = [manifests |-> manifests', lock_file |-> lock_file']
            /\ parse_local_crate_names(manifests') = parse_local_crate_names(manifests)]_vars

C29_Witness ==
    /\ pc = "masked"
    /\ lock_file # None
    /\ Len(parse_local_crate_names(manifests)) >= 2
    /\ \E i \in DOMAIN manifests :
          /\ manifests[i].contents.package # None
          /\ manifests[i].contents.package[1].version = Some([kind |-> "str", str |-> CONST_VERSION])

====
